---- MODULE Spec2Model ----
(***************************************************************************)
(* Model of the music-review aggregator: the review store                  *)
(* (SimplifiedDatabase), its cache, and the query facade                   *)
(* (WorkingReviewService) with the merge / comparison functions.           *)
(*                                                                         *)
(* Text is a sequence of one-character strings; a score is an integer in   *)
(* hundredths of a point (9 is 900, 8.5 is 850); time is counted in units  *)
(* of 30 minutes.                                                          *)
(***************************************************************************)
EXTENDS Integers, Sequences, FiniteSets, TLC

VARIABLES
  reviews,      \* rows of the reviews table, in rowid order
  cache,        \* SimplifiedDatabase.cache       (key -> value)
  cacheExpiry,  \* SimplifiedDatabase.cacheExpiry (key -> expiry time)
  cacheTable,   \* rows of the cache table         (key -> [value, expires_at])
  now,          \* wall clock
  isInitialized, \* WorkingReviewService.isInitialized
  lastOp,       \* the operation that ran last and its arguments
  result,       \* what that operation returned to its caller
  args          \* the arguments of a direct call of mergeReviews or generateComparison

vars == <<reviews, cache, cacheExpiry, cacheTable, now, isInitialized, lastOp, result, args>>

storeVars == <<reviews, cache, cacheExpiry, cacheTable, now, isInitialized>>

\* JavaScript null / undefined and SQL NULL: of a number, of a text, of a comparison
NULL == -1
NoText == <<"null">>
NoComparison == [isNull |-> TRUE]

(***************************************************************************)
(* Bounds of the exploration.                                              *)
(***************************************************************************)
MaxRows   == 2   \* rows the store may hold
MaxCached == 3   \* distinct cache keys the clients' queries may create
MaxTicks  == 1   \* clock ticks explored after start
MaxLen    == 2   \* reviews of each source in a direct call of mergeReviews
MaxLimit  == 3   \* largest limit of a direct call of mergeReviews
MaxStored == 3   \* stored reviews of each source in a single aggregate request
MaxText   == 2   \* length of the artist names handed to createAlbumKey
MaxJoined == 4   \* stored reviews in a single overlap request
MaxQueried == 3  \* stored reviews in a single filtered query
MaxPage   == 2   \* largest page size of a filtered query
MaxOffset == 2   \* largest offset of a filtered query
MaxScraped == 3  \* reviews one scrape hands to the store
MaxCacheTicks == 5  \* clock ticks explored by the cache operations
MaxFound  == 3   \* reviews one check-then-insert run has found
MaxKept   == 2   \* reviews stored before a check-then-insert run
MaxRating == 11  \* largest number a video title names as its rating
MaxCalls  == 3   \* requests that arrive while the service starts
MaxRequests == 2 \* cron firings, scheduler calls and POST /scrape requests explored

(***************************************************************************)
(* Text.                                                                   *)
(***************************************************************************)
UpperCase == <<"A","B","C","D","E","F","G","H","I","J","K","L","M",
               "N","O","P","Q","R","S","T","U","V","W","X","Y","Z">>
LowerCase == <<"a","b","c","d","e","f","g","h","i","j","k","l","m",
               "n","o","p","q","r","s","t","u","v","w","x","y","z">>
Digits    == <<"0","1","2","3","4","5","6","7","8","9">>

IndexIn(c, s) == IF \E i \in DOMAIN s : s[i] = c
                 THEN CHOOSE i \in DOMAIN s : s[i] = c
                 ELSE 0

Range(s) == {s[i] : i \in DOMAIN s}

\* the characters that occur in the model's text
Alphabet == Range(UpperCase) \cup Range(LowerCase) \cup Range(Digits)
            \cup {" ", "\t", "\n", "!", "(", ")", "/", "_"}

\* String.prototype.toLowerCase / SQL LOWER(), character by character
LowerChar == [c \in Alphabet |->
                IF IndexIn(c, UpperCase) > 0 THEN LowerCase[IndexIn(c, UpperCase)] ELSE c]

toLowerCase(s) == [i \in DOMAIN s |-> LowerChar[s[i]]]

\* the regular-expression classes \w and \s
WordChars == Range(UpperCase) \cup Range(LowerCase) \cup Range(Digits) \cup {"_"}
IsWordChar(c) == c \in WordChars
IsSpace(c) == c \in {" ", "\t", "\n"}

\* code unit of a character, for the BINARY collation of ORDER BY
CharCode == [c \in Alphabet |->
               CASE c = "\t" -> 9
                 [] c = "\n" -> 10
                 [] c = " " -> 32
                 [] c = "!" -> 33
                 [] c = "(" -> 40
                 [] c = ")" -> 41
                 [] c = "/" -> 47
                 [] IndexIn(c, Digits) > 0 -> 47 + IndexIn(c, Digits)
                 [] IndexIn(c, UpperCase) > 0 -> 64 + IndexIn(c, UpperCase)
                 [] c = "_" -> 95
                 [] OTHER -> 96 + IndexIn(c, LowerCase)]

RECURSIVE TextLess(_, _)
TextLess(s, t) ==
  IF t = <<>> THEN FALSE
  ELSE IF s = <<>> THEN TRUE
  ELSE IF Head(s) # Head(t) THEN CharCode[Head(s)] < CharCode[Head(t)]
  ELSE TextLess(Tail(s), Tail(t))

\* SQL: text LIKE '%sub%' (the model's text holds no LIKE wildcard)
Contains(text, sub) ==
  \E i \in 0..(Len(text) - Len(sub)) : SubSeq(text, i + 1, i + Len(sub)) = sub

RECURSIVE SelectChars(_, _)
SelectChars(s, keepOther) ==
  IF s = <<>> THEN <<>>
  ELSE IF IsWordChar(Head(s)) \/ IsSpace(Head(s)) \/ keepOther
       THEN <<Head(s)>> \o SelectChars(Tail(s), keepOther)
       ELSE SelectChars(Tail(s), keepOther)

\* .replace(/[^\w\s]/g, '')
StripPunctuation(s) == SelectChars(s, FALSE)

\* .replace(/\s+/g, ' ')
RECURSIVE CollapseSpaces(_)
CollapseSpaces(s) ==
  IF s = <<>> THEN <<>>
  ELSE IF IsSpace(Head(s))
       THEN IF Len(s) > 1 /\ IsSpace(s[2])
            THEN CollapseSpaces(Tail(s))
            ELSE <<" ">> \o CollapseSpaces(Tail(s))
       ELSE <<Head(s)>> \o CollapseSpaces(Tail(s))

\* .trim()
RECURSIVE TrimLeft(_)
TrimLeft(s) == IF s # <<>> /\ IsSpace(Head(s)) THEN TrimLeft(Tail(s)) ELSE s
RECURSIVE TrimRight(_)
TrimRight(s) == IF s # <<>> /\ IsSpace(s[Len(s)]) THEN TrimRight(SubSeq(s, 1, Len(s) - 1)) ELSE s
trim(s) == TrimRight(TrimLeft(s))

normalizeText(text) ==
  trim(CollapseSpaces(StripPunctuation(toLowerCase(IF text = NoText THEN <<>> ELSE text))))

createAlbumKey(artist, album) == normalizeText(artist) \o <<"_">> \o normalizeText(album)

(***************************************************************************)
(* The reviews table (SimplifiedDatabase).                                 *)
(***************************************************************************)
Min(a, b) == IF a < b THEN a ELSE b
Max(a, b) == IF a < b THEN b ELSE a

\* Array.prototype.slice(start, end) for non-negative arguments
slice(s, start, end) == SubSeq(s, start + 1, Min(end, Len(s)))

\* the elements of s that are in the set kept, in the order of s
FilterSeq(s, kept) ==
  LET Keep(x) == x \in kept
  IN  SelectSeq(s, Keep)

\* the ordered pairs of elements of s that a comparison relates
Pairs(s) == Range(s) \X Range(s)

\* a stable sort: <<a, b>> \in before says that a must come ahead of b; elements
\* that are not ordered by before keep their relative position
StableSort(s, before) ==
  LET Before(a, b) == <<a, b>> \in before
      RECURSIVE Insert(_, _)
      Insert(x, t) == IF t = <<>> THEN <<x>>
                      ELSE IF Before(Head(t), x) THEN <<Head(t)>> \o Insert(x, Tail(t))
                           ELSE <<x>> \o t
      RECURSIVE Sort(_)
      Sort(t) == IF t = <<>> THEN <<>> ELSE Insert(Head(t), Sort(Tail(t)))
  IN  Sort(s)

\* UNIQUE(artist, album, reviewer) ON CONFLICT REPLACE: the columns are compared as stored
UniqueConflict(row, r) ==
  row.artist = r.artist /\ row.album = r.album /\ row.reviewer = r.reviewer

\* artist and album are declared NOT NULL (the reviewer is always supplied)
ViolatesNotNull(r) == r.artist = NoText \/ r.album = NoText

\* a plain INSERT: the row that holds the same (artist, album, reviewer) stays
insertReview_NoReplace(rows, reviewData) ==
  IF ViolatesNotNull(reviewData) THEN rows ELSE rows \o <<reviewData>>

\* INSERT OR REPLACE INTO reviews: the conflicting row is deleted, the new row gets a new rowid
insertReview(rows, reviewData) ==
  IF ViolatesNotNull(reviewData) THEN rows
  ELSE FilterSeq(rows, {row \in Range(rows) : ~UniqueConflict(row, reviewData)}) \o <<reviewData>>

\* ORDER BY year DESC, artist, album (NULL is the smallest value, so it comes last in DESC)
YearRank(y) == IF y = NULL THEN -1 ELSE y
OrderByYearArtistAlbum(a, b) ==
  \/ YearRank(a.year) > YearRank(b.year)
  \/ /\ YearRank(a.year) = YearRank(b.year)
     /\ \/ TextLess(a.artist, b.artist)
        \/ a.artist = b.artist /\ TextLess(a.album, b.album)

\* a JavaScript truthiness test of an optional text parameter
Given(text) == text # NoText /\ text # <<>>

getReviews(rows, artist, album, reviewer, limit, offset) ==
  LET matching == FilterSeq(rows, {row \in Range(rows) :
                    /\ Given(artist) => Contains(toLowerCase(row.artist), toLowerCase(artist))
                    /\ Given(album) => Contains(toLowerCase(row.album), toLowerCase(album))
                    /\ reviewer # "" => row.reviewer = reviewer})
      ordered == StableSort(matching,
                   {p \in Pairs(matching) : OrderByYearArtistAlbum(p[1], p[2])})
  IN  slice(ordered, offset, offset + limit)

\* the join with LOWER() applied to the second table only
JoinCondition_OneSided(r1, r2) ==
  /\ r1.artist = toLowerCase(r2.artist)
  /\ r1.album = toLowerCase(r2.album)

\* JOIN reviews r2 ON LOWER(r1.artist) = LOWER(r2.artist) AND LOWER(r1.album) = LOWER(r2.album)
JoinCondition(r1, r2) ==
  /\ toLowerCase(r1.artist) = toLowerCase(r2.artist)
  /\ toLowerCase(r1.album) = toLowerCase(r2.album)

RECURSIVE JoinRows(_, _)
JoinRows(left, right) ==
  IF left = <<>> THEN <<>>
  ELSE LET r1 == Head(left)
           hits == FilterSeq(right, {r2 \in Range(right) : JoinCondition(r1, r2)})
       IN  [i \in DOMAIN hits |->
              [artist |-> r1.artist, album |-> r1.album, year |-> r1.year,
               fantano_score |-> r1.score, fantano_summary |-> r1.summary,
               fantano_url |-> r1.source_url,
               scaruffi_score |-> hits[i].score, scaruffi_summary |-> hits[i].summary,
               scaruffi_url |-> hits[i].source_url]]
           \o JoinRows(Tail(left), right)

getOverlappingReviews(rows, artist, album, limit) ==
  LET r1s == FilterSeq(rows, {row \in Range(rows) :
               /\ row.reviewer = "fantano"
               /\ Given(artist) => Contains(toLowerCase(row.artist), toLowerCase(artist))
               /\ Given(album) => Contains(toLowerCase(row.album), toLowerCase(album))})
      r2s == FilterSeq(rows, {row \in Range(rows) : row.reviewer = "scaruffi"})
      joined == JoinRows(r1s, r2s)
      ordered == StableSort(joined,
                   {p \in Pairs(joined) : YearRank(p[1].year) > YearRank(p[2].year)})
  IN  slice(ordered, 0, limit)

\* getAllStats; every stored row is younger than 7 days within the explored clock range
CountRows(rows, kept) == Len(FilterSeq(rows, kept))

RECURSIVE SumScores(_)
SumScores(rows) == IF rows = <<>> THEN 0 ELSE Head(rows).score + SumScores(Tail(rows))

\* failed: one of the statements throws; the catch block then returns {}
getAllStats(rows, failed) ==
  IF failed THEN <<>> ELSE
  LET present == {rows[i].reviewer : i \in DOMAIN rows}
      scored(rv) == FilterSeq(rows, {row \in Range(rows) : row.reviewer = rv /\ row.score # NULL})
      withScore == {rv \in present : scored(rv) # <<>>}
  IN  [totalReviews |-> Len(rows),
       bySource |-> [rv \in present |-> CountRows(rows, {row \in Range(rows) : row.reviewer = rv})],
       recentReviews |-> Len(rows),
       overlappingReviews |->
         Len(JoinRows(FilterSeq(rows, {row \in Range(rows) : row.reviewer = "fantano"}),
                      FilterSeq(rows, {row \in Range(rows) : row.reviewer = "scaruffi"}))),
       \* Math.round(avg_score * 100) / 100
       averageScores |-> [rv \in withScore |->
          (2 * SumScores(scored(rv)) + Len(scored(rv))) \div (2 * Len(scored(rv)))]]

(***************************************************************************)
(* The cache (SimplifiedDatabase.cacheSet / cacheGet).                     *)
(***************************************************************************)
HalfHoursPerDay == 24 * 2

\* new Date(t).toISOString(): 'YYYY-MM-DDTHH:MM:SS.sssZ'
toISOString(t) == <<t \div HalfHoursPerDay, CharCode["T"], t % HalfHoursPerDay>>
\* SQLite datetime('now'): 'YYYY-MM-DD HH:MM:SS'
SqlDatetime(t) == <<t \div HalfHoursPerDay, CharCode[" "], t % HalfHoursPerDay>>

\* comparison of the two texts, left to right
TimestampGreater(a, b) ==
  \E i \in 1..3 : a[i] > b[i] /\ \A j \in 1..(i - 1) : a[j] = b[j]

Put(f, k, v) == [x \in DOMAIN f \cup {k} |-> IF x = k THEN v ELSE f[x]]
Remove(f, k) == [x \in DOMAIN f \ {k} |-> f[x]]

\* the three stores after cacheSet(key, value, ttlSeconds) at time t
cacheSet(c, key, value, ttlSeconds, t) ==
  LET expiresAt == t + ttlSeconds \div 1800
  IN  [cache |-> Put(c.cache, key, value),
       cacheExpiry |-> Put(c.cacheExpiry, key, expiresAt),
       cacheTable |-> Put(c.cacheTable, key,
                          [value |-> value, expires_at |-> toISOString(expiresAt)])]

\* an in-memory entry that cacheGet returns
MemoryLive(c, key, t) == key \in DOMAIN c.cacheExpiry /\ t < c.cacheExpiry[key]
\* a row that SELECT ... WHERE key = ? AND expires_at > datetime('now') returns
TableLive(c, key, t) ==
  /\ key \in DOMAIN c.cacheTable
  /\ TimestampGreater(c.cacheTable[key].expires_at, SqlDatetime(t))

\* cacheGet(key) at time t: whether a value is returned, the value, and the stores afterwards
cacheGet(c, key, t) ==
  IF MemoryLive(c, key, t)
  THEN [hit |-> TRUE, value |-> c.cache[key], stores |-> c]
  ELSE LET cleaned == [c EXCEPT !.cache = Remove(c.cache, key),
                                !.cacheExpiry = Remove(c.cacheExpiry, key)]
       IN  IF TableLive(c, key, t)
           THEN [hit |-> TRUE, value |-> c.cacheTable[key].value,
                 stores |-> [cleaned EXCEPT !.cache = Put(cleaned.cache, key, c.cacheTable[key].value),
                                            !.cacheExpiry = Put(cleaned.cacheExpiry, key, t + 2)]]
           ELSE [hit |-> FALSE, value |-> <<>>, stores |-> cleaned]

(***************************************************************************)
(* WorkingReviewService: comparison and merge.                             *)
(***************************************************************************)
\* a property of a JavaScript object; a missing property reads as undefined
Prop(obj, name) == IF name \in DOMAIN obj THEN obj[name] ELSE NULL
Flag(obj, name) == IF name \in DOMAIN obj THEN obj[name] ELSE FALSE

\* !score : null, undefined and 0 are falsy
Falsy(score) == score = NULL \/ score = 0
\* score || 0
OrZero(x) == IF x = NULL THEN 0 ELSE x

Abs(x) == IF x < 0 THEN -x ELSE x

\* Math.round(x * 10) / 10 of x given as the fraction num / den of hundredths
RoundToTenth(num, den) == ((2 * num + 10 * den) \div (20 * den)) * 10

generateComparisonSummary(fantanoScore, scaruffiScore, agreement) ==
  IF agreement = "agree" THEN <<"Both critics give similar ratings", fantanoScore, scaruffiScore>>
  ELSE IF agreement = "disagree"
       THEN <<"Strong disagreement",
              IF fantanoScore > scaruffiScore THEN "Fantano" ELSE "Scaruffi",
              Max(fantanoScore, scaruffiScore),
              IF fantanoScore > scaruffiScore THEN "Scaruffi" ELSE "Fantano",
              Min(fantanoScore, scaruffiScore)>>
       ELSE <<"Mild difference in ratings", fantanoScore, scaruffiScore>>

generateComparison(review) ==
  LET fantanoScore == Prop(review, "fantano_score")
      scaruffiScore == Prop(review, "scaruffi_score")
      scoreDiff == Abs(fantanoScore - scaruffiScore)
      agreement == IF scoreDiff > 300 THEN "disagree"
                   ELSE IF scoreDiff < 100 THEN "agree" ELSE "similar"
      higherRating == IF fantanoScore > scaruffiScore THEN "fantano" ELSE "scaruffi"
  IN  IF Falsy(fantanoScore) \/ Falsy(scaruffiScore) THEN NoComparison
      ELSE [score_difference |-> RoundToTenth(scoreDiff, 1),
            average_score |-> RoundToTenth(fantanoScore + scaruffiScore, 2),
            agreement_level |-> agreement,
            higher_rating |-> IF scoreDiff > 50 THEN higherRating ELSE "similar",
            summary |-> generateComparisonSummary(fantanoScore, scaruffiScore, agreement)]

\* Object.assign(target, source)
ObjectAssign(target, source) ==
  [name \in DOMAIN target \cup DOMAIN source |->
     IF name \in DOMAIN source THEN source[name] ELSE target[name]]

\* the comparator with the years of non-overlap entries the wrong way round
MergeCompare_OldestFirst(a, b) ==
  IF Flag(a, "overlap") /\ ~Flag(b, "overlap") THEN -1
  ELSE IF ~Flag(a, "overlap") /\ Flag(b, "overlap") THEN 1
  ELSE IF Flag(a, "overlap") /\ Flag(b, "overlap")
       THEN Abs(OrZero(Prop(b, "fantano_score")) - OrZero(Prop(b, "scaruffi_score")))
            - Abs(OrZero(Prop(a, "fantano_score")) - OrZero(Prop(a, "scaruffi_score")))
       ELSE OrZero(Prop(a, "year")) - OrZero(Prop(b, "year"))

\* the comparator handed to merged.sort: a negative value puts a first
MergeCompare(a, b) ==
  IF Flag(a, "overlap") /\ ~Flag(b, "overlap") THEN -1
  ELSE IF ~Flag(a, "overlap") /\ Flag(b, "overlap") THEN 1
  ELSE IF Flag(a, "overlap") /\ Flag(b, "overlap")
       THEN Abs(OrZero(Prop(b, "fantano_score")) - OrZero(Prop(b, "scaruffi_score")))
            - Abs(OrZero(Prop(a, "fantano_score")) - OrZero(Prop(a, "scaruffi_score")))
       ELSE OrZero(Prop(b, "year")) - OrZero(Prop(a, "year"))

\* the first loop: every Fantano review is copied into the map and, as a second
\* copy, into the list
RECURSIVE IndexFantano(_, _)
IndexFantano(list, state) ==
  IF list = <<>> THEN state
  ELSE LET key == createAlbumKey(Head(list).artist, Head(list).album)
       IN  IndexFantano(Tail(list),
             [artistAlbumMap |-> Put(state.artistAlbumMap, key, Head(list)),
              merged |-> Append(state.merged, Head(list))])

\* the second loop: a Scaruffi review whose key is in the map is merged into the
\* map's object; any other is appended to the list
RECURSIVE MergeScaruffi(_, _)
MergeScaruffi(list, state) ==
  IF list = <<>> THEN state
  ELSE LET rv == Head(list)
           key == createAlbumKey(rv.artist, rv.album)
       IN  IF key \in DOMAIN state.artistAlbumMap
           THEN LET existing == state.artistAlbumMap[key]
                    update == [scaruffi_score |-> rv.scaruffi_score,
                               scaruffi_summary |-> rv.scaruffi_summary,
                               scaruffi_url |-> rv.source_url,
                               overlap |-> TRUE,
                               comparison |-> generateComparison(
                                 [fantano_score |-> Prop(existing, "fantano_score"),
                                  scaruffi_score |-> rv.scaruffi_score])]
                IN  MergeScaruffi(Tail(list),
                      [state EXCEPT !.artistAlbumMap =
                         Put(state.artistAlbumMap, key, ObjectAssign(existing, update))])
           ELSE MergeScaruffi(Tail(list), [state EXCEPT !.merged = Append(state.merged, rv)])

\* the list before the final slice
SortedMerge(fantanoReviews, scaruffiReviews) ==
  LET indexed == IndexFantano(fantanoReviews, [artistAlbumMap |-> <<>>, merged |-> <<>>])
      state == MergeScaruffi(scaruffiReviews, indexed)
  IN  StableSort(state.merged, {p \in Pairs(state.merged) : MergeCompare(p[1], p[2]) < 0})

\* the slice taken one entry too long
mergeReviews_OneMore(fantanoReviews, scaruffiReviews, maxResults) ==
  slice(SortedMerge(fantanoReviews, scaruffiReviews), 0, maxResults + 1)

mergeReviews(fantanoReviews, scaruffiReviews, maxResults) ==
  slice(SortedMerge(fantanoReviews, scaruffiReviews), 0, maxResults)

(***************************************************************************)
(* Inputs of the exploration.                                              *)
(***************************************************************************)
Radiohead == <<"R","a","d","i","o","h","e","a","d">>
KidA      == <<"K","i","d"," ","A">>
Can       == <<"C","a","n">>
TagoMago  == <<"T","a","g","o"," ","M","a","g","o">>

Row(artist, album, year, reviewer, score, summary) ==
  [artist |-> artist, album |-> album, year |-> year, reviewer |-> reviewer,
   score |-> score, summary |-> summary, source_url |-> <<reviewer, summary>>]

\* the artists and albums of loadDemoData
KendrickLamar == <<"K","e","n","d","r","i","c","k"," ","L","a","m","a","r">>
ToPimpAButterfly == <<"T","o"," ","P","i","m","p"," ","a"," ","B","u","t","t","e","r","f","l","y">>
DeathGrips == <<"D","e","a","t","h"," ","G","r","i","p","s">>
TheMoneyStore == <<"T","h","e"," ","M","o","n","e","y"," ","S","t","o","r","e">>
KanyeWest == <<"K","a","n","y","e"," ","W","e","s","t">>
MyBeautifulDarkTwistedFantasy ==
  <<"M","y"," ","B","e","a","u","t","i","f","u","l"," ","D","a","r","k"," ","T","w","i","s","t",
    "e","d"," ","F","a","n","t","a","s","y">>
Swans == <<"S","w","a","n","s">>
TheSeer == <<"T","h","e"," ","S","e","e","r">>
TheVelvetUnderground ==
  <<"T","h","e"," ","V","e","l","v","e","t"," ","U","n","d","e","r","g","r","o","u","n","d">>
WhiteLightWhiteHeat ==
  <<"W","h","i","t","e"," ","L","i","g","h","t","/","W","h","i","t","e"," ","H","e","a","t">>
SonicYouth == <<"S","o","n","i","c"," ","Y","o","u","t","h">>
DaydreamNation == <<"D","a","y","d","r","e","a","m"," ","N","a","t","i","o","n">>

DemoReview(artist, album, year, score, summary) ==
  [artist |-> artist, album |-> album, year |-> year, score |-> score,
   summary |-> summary, source_url |-> <<"demo", summary>>]

\* WorkingReviewService.demoData (loadDemoData)
demoData ==
  [fantano |->
     << DemoReview(KendrickLamar, ToPimpAButterfly, 2015, 1000, "d1"),
        DemoReview(DeathGrips, TheMoneyStore, 2012, 1000, "d2"),
        DemoReview(Radiohead, KidA, 2000, 900, "d3"),
        DemoReview(KanyeWest, MyBeautifulDarkTwistedFantasy, 2010, 1000, "d4"),
        DemoReview(Swans, TheSeer, 2012, 900, "d5") >>,
   scaruffi |->
     << DemoReview(Can, TagoMago, 1971, 950, "d6"),
        DemoReview(Radiohead, KidA, 2000, 850, "d7"),
        DemoReview(TheVelvetUnderground, WhiteLightWhiteHeat, 1968, 900, "d8"),
        DemoReview(Swans, TheSeer, 2012, 800, "d9"),
        DemoReview(SonicYouth, DaydreamNation, 1988, 900, "d10") >>]

\* what ingestion hands to insertReview
ReviewInputs ==
  { Row(Radiohead, KidA, 2000, "fantano", 900, "f1"),
    Row(Radiohead, KidA, 2000, "fantano", 700, "f2"),
    Row(<<"R","A","D","I","O","H","E","A","D","!","!">>, <<"k","i","d"," "," ","a">>,
        NULL, "fantano", NULL, "f3"),
    Row(Radiohead, KidA, 2000, "scaruffi", 850, "s1"),
    Row(Radiohead, <<"k","i","d"," "," "," ","a","!","!">>, 2000, "scaruffi", 800, "s2"),
    Row(Can, TagoMago, 1971, "scaruffi", 950, "s3") }

\* what the HTTP layer hands to the service
ArtistFilters == {NoText}
AlbumFilters  == {NoText}
Limits        == {1}

(***************************************************************************)
(* WorkingReviewService: the queries.                                      *)
(***************************************************************************)
OrAll(text) == IF Given(text) THEN text ELSE <<"a","l","l">>

\* `${source}_${artist || 'all'}_${album || 'all'}_${limit}`
SourceCacheKey(source, artist, album, limit) ==
  <<source, "_">> \o OrAll(artist) \o <<"_">> \o OrAll(album) \o <<"_", ToString(limit)>>

\* `aggregated_${artist || 'all'}_${album || 'all'}_${limit}_${includeOverlapOnly}`
AggregatedCacheKey(artist, album, limit, includeOverlapOnly) ==
  SourceCacheKey("aggregated", artist, album, limit) \o <<"_", ToString(includeOverlapOnly)>>

Stores == [cache |-> cache, cacheExpiry |-> cacheExpiry, cacheTable |-> cacheTable]

\* reviews.map(review => ({...})) of getFantanoReviews / getScaruffiReviews
TransformSource(rows, source) ==
  [i \in DOMAIN rows |->
     IF source = "fantano"
     THEN [artist |-> rows[i].artist, album |-> rows[i].album, year |-> rows[i].year,
           fantano_score |-> rows[i].score, fantano_summary |-> rows[i].summary,
           source |-> source, source_url |-> rows[i].source_url]
     ELSE [artist |-> rows[i].artist, album |-> rows[i].album, year |-> rows[i].year,
           scaruffi_score |-> rows[i].score, scaruffi_summary |-> rows[i].summary,
           source |-> source, source_url |-> rows[i].source_url]]

\* the source query with useCache ignored: the cache is always consulted
getSourceReviews_AlwaysCached(c, rows, source, artist, album, limit, useCache, t) ==
  LET cacheKey == SourceCacheKey(source, artist, album, limit)
      looked == cacheGet(c, cacheKey, t)
      transformedReviews == TransformSource(getReviews(rows, artist, album, source, limit, 0), source)
  IN  IF looked.hit
      THEN [value |-> looked.value, cached |-> TRUE, stores |-> looked.stores]
      ELSE [value |-> transformedReviews, cached |-> FALSE,
            stores |-> cacheSet(looked.stores, cacheKey, transformedReviews, 3600, t)]

\* getFantanoReviews / getScaruffiReviews: the value returned, whether it is the
\* cached one ("Returning cached ..."), and the stores afterwards
getSourceReviews(c, rows, source, artist, album, limit, useCache, t) ==
  LET cacheKey == SourceCacheKey(source, artist, album, limit)
      looked == IF useCache THEN cacheGet(c, cacheKey, t)
                ELSE [hit |-> FALSE, value |-> <<>>, stores |-> c]
      transformedReviews == TransformSource(getReviews(rows, artist, album, source, limit, 0), source)
  IN  IF looked.hit
      THEN [value |-> looked.value, cached |-> TRUE, stores |-> looked.stores]
      ELSE [value |-> transformedReviews, cached |-> FALSE,
            stores |-> cacheSet(looked.stores, cacheKey, transformedReviews, 3600, t)]

\* overlappingReviews.map(review => ({..., overlap: true, comparison: ...}))
TransformOverlaps(rows) ==
  [i \in DOMAIN rows |->
     [artist |-> rows[i].artist, album |-> rows[i].album, year |-> rows[i].year,
      fantano_score |-> rows[i].fantano_score, fantano_summary |-> rows[i].fantano_summary,
      fantano_url |-> rows[i].fantano_url,
      scaruffi_score |-> rows[i].scaruffi_score, scaruffi_summary |-> rows[i].scaruffi_summary,
      scaruffi_url |-> rows[i].scaruffi_url,
      overlap |-> TRUE, comparison |-> generateComparison(rows[i])]]

\* Math.ceil(limit * 0.6)
SourceLimit(limit) == (6 * limit + 9) \div 10

getAggregatedReviews(c, rows, artist, album, limit, includeOverlapOnly, t) ==
  LET cacheKey == AggregatedCacheKey(artist, album, limit, includeOverlapOnly)
      looked == cacheGet(c, cacheKey, t)
      transformedOverlaps == TransformOverlaps(getOverlappingReviews(rows, artist, album, limit))
      fromFantano == getSourceReviews(looked.stores, rows, "fantano", artist, album,
                                      SourceLimit(limit), FALSE, t)
      fromScaruffi == getSourceReviews(fromFantano.stores, rows, "scaruffi", artist, album,
                                       SourceLimit(limit), FALSE, t)
      mergedReviews == mergeReviews(fromFantano.value, fromScaruffi.value, limit)
  IN  IF looked.hit THEN [value |-> looked.value, cached |-> TRUE, stores |-> looked.stores]
      ELSE IF includeOverlapOnly
      THEN [value |-> transformedOverlaps, cached |-> FALSE,
            stores |-> cacheSet(looked.stores, cacheKey, transformedOverlaps, 1800, t)]
      ELSE [value |-> mergedReviews, cached |-> FALSE,
            stores |-> cacheSet(fromScaruffi.stores, cacheKey, mergedReviews, 1800, t)]

StatsCacheKey == <<"review_stats">>

getReviewStats(c, rows, t, failed) ==
  LET looked == cacheGet(c, StatsCacheKey, t)
      stats == getAllStats(rows, failed)
  IN  IF looked.hit THEN [value |-> looked.value, cached |-> TRUE, stores |-> looked.stores]
      ELSE [value |-> stats, cached |-> FALSE,
            stores |-> cacheSet(looked.stores, StatsCacheKey, stats, 3600, t)]

\* this.database.insertReview({...review, reviewer, full_text}) for each demo review
RECURSIVE InsertDemoReviews(_, _, _)
InsertDemoReviews(rows, list, reviewer) ==
  IF list = <<>> THEN rows
  ELSE InsertDemoReviews(
         insertReview(rows, [artist |-> Head(list).artist, album |-> Head(list).album,
                             year |-> Head(list).year, reviewer |-> reviewer,
                             score |-> Head(list).score, summary |-> Head(list).summary,
                             source_url |-> Head(list).source_url]),
         Tail(list), reviewer)

\* the demo reviews are stored unless the table already holds a review
populateDemoData(rows) ==
  IF getReviews(rows, NoText, NoText, "", 1, 0) # <<>> THEN rows
  ELSE InsertDemoReviews(InsertDemoReviews(rows, demoData.fantano, "fantano"),
                         demoData.scaruffi, "scaruffi")

\* ensureInitialized / initialize: the rows of the table once the service is initialized
ensureInitialized(initialized, rows) ==
  IF initialized THEN rows ELSE populateDemoData(rows)

(***************************************************************************)
(* The service as a state machine.                                         *)
(***************************************************************************)
StartTime == HalfHoursPerDay - 1   \* the process starts at 23:30

Idle == [op |-> "none"]

InitService ==
  /\ reviews = <<>>
  /\ cache = <<>> /\ cacheExpiry = <<>> /\ cacheTable = <<>>
  /\ now = StartTime
  /\ isInitialized = FALSE
  /\ lastOp = Idle
  /\ result = <<>>

Init ==
  /\ InitService
  /\ args = <<>>

Respond(op, answer) ==
  /\ Cardinality(DOMAIN answer.stores.cacheTable) <= MaxCached
  /\ cache' = answer.stores.cache
  /\ cacheExpiry' = answer.stores.cacheExpiry
  /\ cacheTable' = answer.stores.cacheTable
  /\ result' = answer.value
  /\ reviews' = ensureInitialized(isInitialized, reviews)
  /\ isInitialized' = TRUE
  /\ lastOp' = [request |-> op, cached |-> answer.cached, op |-> op.name]
  /\ UNCHANGED <<now, args>>

\* an ingestion run (a scraper, the scheduler) stores one review through its
\* SimplifiedDatabase on the same reviews.db
InsertReview(reviewData) ==
  /\ Len(insertReview(reviews, reviewData)) <= MaxRows
  /\ reviews' = insertReview(reviews, reviewData)
  /\ lastOp' = [op |-> "insertReview", reviewData |-> reviewData, before |-> reviews]
  /\ result' = IF ViolatesNotNull(reviewData) THEN "SqliteError: NOT NULL constraint failed"
                ELSE [changes |-> 1]
  /\ UNCHANGED <<cache, cacheExpiry, cacheTable, now, isInitialized, args>>

\* GET /fantano, GET /scaruffi
GetSourceReviews(source, artist, album, limit, useCache) ==
  Respond([name |-> "getSourceReviews", source |-> source, artist |-> artist, album |-> album,
           limit |-> limit, useCache |-> useCache],
          getSourceReviews(Stores, ensureInitialized(isInitialized, reviews),
                           source, artist, album, limit, useCache, now))

\* GET /all, GET /overlap
GetAggregatedReviews(artist, album, limit, includeOverlapOnly) ==
  Respond([name |-> "getAggregatedReviews", artist |-> artist, album |-> album,
           limit |-> limit, includeOverlapOnly |-> includeOverlapOnly],
          getAggregatedReviews(Stores, ensureInitialized(isInitialized, reviews),
                               artist, album, limit, includeOverlapOnly, now))

\* GET /stats
GetReviewStats(failed) ==
  Respond([name |-> "getReviewStats", failed |-> failed],
          getReviewStats(Stores, ensureInitialized(isInitialized, reviews), now, failed))

\* half an hour passes
Tick ==
  /\ now < StartTime + MaxTicks
  /\ now' = now + 1
  /\ lastOp' = Idle
  /\ result' = <<>>
  /\ UNCHANGED <<reviews, cache, cacheExpiry, cacheTable, isInitialized, args>>

Next ==
  \/ \E reviewData \in ReviewInputs : InsertReview(reviewData)
  \/ \E source \in {"fantano", "scaruffi"}, artist \in ArtistFilters, album \in AlbumFilters,
        limit \in Limits, useCache \in BOOLEAN :
        GetSourceReviews(source, artist, album, limit, useCache)
  \/ \E artist \in ArtistFilters, album \in AlbumFilters, limit \in Limits,
        includeOverlapOnly \in BOOLEAN :
        GetAggregatedReviews(artist, album, limit, includeOverlapOnly)
  \/ GetReviewStats(FALSE)
  \/ Tick

Spec == Init /\ [][Next]_vars

(***************************************************************************)
(* mergeReviews on its own: the arguments are what getAggregatedReviews    *)
(* hands over for some store and some limit.                               *)
(***************************************************************************)

FantanoPool ==
  { Row(Radiohead, KidA, 2000, "fantano", 900, "f1"),
    Row(<<"R","A","D","I","O","H","E","A","D","!","!">>, <<"k","i","d"," "," ","a">>,
        NULL, "fantano", NULL, "f3"),
    Row(Swans, TheSeer, 2012, "fantano", 900, "f4"),
    Row(Can, TagoMago, 1971, "fantano", 0, "f5") }

ScaruffiPool ==
  { Row(Radiohead, KidA, 2000, "scaruffi", 850, "s1"),
    Row(Radiohead, <<"k","i","d"," "," "," ","a","!","!">>, 2000, "scaruffi", 800, "s2"),
    Row(Can, TagoMago, 1971, "scaruffi", 950, "s3"),
    Row(Swans, TheSeer, 2012, "scaruffi", 500, "s4") }

\* the rows of a set, in some rowid order
RECURSIVE SetToSeq(_)
SetToSeq(S) == IF S = {} THEN <<>>
               ELSE LET x == CHOOSE y \in S : TRUE IN <<x>> \o SetToSeq(S \ {x})

MergeArgs ==
  { [fantanoReviews |-> TransformSource(getReviews(SetToSeq(F \cup S), NoText, NoText,
                                                   "fantano", SourceLimit(limit), 0), "fantano"),
     scaruffiReviews |-> TransformSource(getReviews(SetToSeq(F \cup S), NoText, NoText,
                                                    "scaruffi", SourceLimit(limit), 0), "scaruffi"),
     maxResults |-> limit] :
    F \in {X \in SUBSET FantanoPool : Cardinality(X) <= MaxLen},
    S \in {X \in SUBSET ScaruffiPool : Cardinality(X) <= MaxLen},
    limit \in 0..MaxLimit }

InitMerge ==
  /\ InitService
  /\ args \in MergeArgs

MergeReviews ==
  /\ lastOp = Idle
  /\ result' = mergeReviews(args.fantanoReviews, args.scaruffiReviews, args.maxResults)
  /\ lastOp' = [op |-> "mergeReviews"]
  /\ UNCHANGED <<storeVars, args>>

SpecMerge == InitMerge /\ [][MergeReviews]_vars

(***************************************************************************)
(* One aggregate request (GET /all, GET /overlap) of a service that starts *)
(* on a reviews.db holding the reviews of earlier ingestion runs.          *)
(***************************************************************************)
StoredTables ==
  { SetToSeq(F \cup S) :
    F \in {X \in SUBSET FantanoPool : Cardinality(X) <= MaxStored},
    S \in {X \in SUBSET ScaruffiPool : Cardinality(X) <= MaxStored} }

InitAggregate ==
  /\ reviews \in StoredTables
  /\ cache = <<>> /\ cacheExpiry = <<>> /\ cacheTable = <<>>
  /\ now = StartTime
  /\ isInitialized = FALSE
  /\ lastOp = Idle
  /\ result = <<>>
  /\ args \in [limit : 1..MaxLimit]

Aggregate ==
  /\ lastOp = Idle
  /\ \E includeOverlapOnly \in BOOLEAN :
       GetAggregatedReviews(NoText, NoText, args.limit, includeOverlapOnly)

SpecAggregate == InitAggregate /\ [][Aggregate]_vars

(***************************************************************************)
(* One overlap request (GET /overlap) of a service that starts on a        *)
(* reviews.db holding reviews of both sources: the same album under names  *)
(* that differ in letter case, with different years, without a score.      *)
(***************************************************************************)
OverlapPool ==
  { Row(Radiohead, KidA, 2000, "fantano", 900, "o1"),
    Row(<<"R","A","D","I","O","H","E","A","D">>, <<"K","I","D"," ","A">>, 2000, "fantano", 700, "o2"),
    Row(Swans, TheSeer, 2012, "fantano", NULL, "o3"),
    Row(Can, TagoMago, 2000, "fantano", 950, "o4"),
    Row(Radiohead, KidA, 1999, "scaruffi", 850, "p1"),
    Row(<<"r","a","d","i","o","h","e","a","d">>, <<"k","i","d"," ","a">>, 2000, "scaruffi", 500, "p2"),
    Row(Swans, TheSeer, 1990, "scaruffi", 800, "p3"),
    Row(Can, TagoMago, 1971, "scaruffi", 450, "p4"),
    Row(Swans, <<"T","h","e"," "," ","S","e","e","r","!">>, 1990, "scaruffi", NULL, "p5") }

\* the tables of at most n rows of a pool, in every insertion order
RECURSIVE TablesOf(_, _)
TablesOf(pool, n) ==
  IF n = 0 THEN {<<>>}
  ELSE LET shorter == TablesOf(pool, n - 1)
       IN  shorter \cup UNION {{Append(t, r) : r \in pool \ Range(t)} : t \in shorter}

InitOverlap ==
  /\ reviews \in TablesOf(OverlapPool, MaxJoined)
  /\ cache = <<>> /\ cacheExpiry = <<>> /\ cacheTable = <<>>
  /\ now = StartTime
  /\ isInitialized = FALSE
  /\ lastOp = Idle
  /\ result = <<>>
  /\ args \in [limit : 1..MaxLimit]

Overlap ==
  /\ lastOp = Idle
  /\ GetAggregatedReviews(NoText, NoText, args.limit, TRUE)

SpecOverlap == InitOverlap /\ [][Overlap]_vars

(***************************************************************************)
(* createAlbumKey on its own, for two (artist, album) inputs.              *)
(***************************************************************************)
TextChars == {"a", "A", "_", "!", " "}

RECURSIVE TextsUpTo(_)
TextsUpTo(n) ==
  IF n = 0 THEN {<<>>}
  ELSE LET shorter == TextsUpTo(n - 1)
       IN  shorter \cup {Append(t, c) : t \in shorter, c \in TextChars}

\* every short text, a missing artist, and an artist with an underscore
ArtistTexts == TextsUpTo(MaxText) \cup {NoText, <<"a","_","b">>}
AlbumTexts  == {<<"c">>, <<"b","_","c">>, <<" ","C","!">>}

Names == [artist : ArtistTexts, album : AlbumTexts]

InitNormalize ==
  /\ InitService
  /\ args \in [first : Names, second : Names]

CreateAlbumKey ==
  /\ lastOp = Idle
  /\ result' = [first |-> createAlbumKey(args.first.artist, args.first.album),
                second |-> createAlbumKey(args.second.artist, args.second.album)]
  /\ lastOp' = [op |-> "createAlbumKey"]
  /\ UNCHANGED <<storeVars, args>>

SpecNormalize == InitNormalize /\ [][CreateAlbumKey]_vars

(***************************************************************************)
(* generateComparison on its own, for every pair of scores.                *)
(***************************************************************************)
\* absent, or 0 to 10 in steps of a quarter point
Scores == {NULL} \cup {25 * k : k \in 0..40}

InitCompare ==
  /\ InitService
  /\ args \in [fantano_score : Scores, scaruffi_score : Scores]

GenerateComparison ==
  /\ lastOp = Idle
  /\ result' = generateComparison(args)
  /\ lastOp' = [op |-> "generateComparison"]
  /\ UNCHANGED <<storeVars, args>>

\* generateComparison(fantano, scaruffi) of the compact servers
Compact_generateComparison(fantano, scaruffi) ==
  LET diff == Abs(fantano - scaruffi)
      agreement == IF diff > 300 THEN "disagree"
                   ELSE IF diff < 100 THEN "agree" ELSE "similar"
  IN  IF Falsy(fantano) \/ Falsy(scaruffi) THEN NoComparison
      ELSE [score_difference |-> RoundToTenth(diff, 1),
            average_score |-> RoundToTenth(fantano + scaruffi, 2),
            agreement_level |-> agreement,
            higher_rating |-> IF fantano > scaruffi THEN "fantano" ELSE "scaruffi",
            summary |-> IF agreement = "agree"
                        THEN <<"Both critics agree", fantano, scaruffi>>
                        ELSE <<IF agreement = "disagree" THEN "Strong disagreement"
                               ELSE "Mild difference", fantano, scaruffi>>]

\* the comparison GET /api/reviews/overlap of a compact server attaches to an entry
CompactGenerateComparison ==
  /\ lastOp = Idle
  /\ result' = Compact_generateComparison(args.fantano_score, args.scaruffi_score)
  /\ lastOp' = [op |-> "compact generateComparison"]
  /\ UNCHANGED <<storeVars, args>>

NextCompare == GenerateComparison \/ CompactGenerateComparison

SpecCompare == InitCompare /\ [][NextCompare]_vars

(***************************************************************************)
(* Properties of mergeReviews (checked under SpecMerge).                   *)
(***************************************************************************)
Merged == lastOp.op = "mergeReviews"

KeyOf(entry) == createAlbumKey(entry.artist, entry.album)

\* no entry can have been cut off by the limit
NotTruncated == Len(args.fantanoReviews) + Len(args.scaruffiReviews) <= args.maxResults

EntriesWithKey(list, key) == {i \in DOMAIN list : KeyOf(list[i]) = key}

\* the example of the specification: A = [Kid A, 9], B = [Kid A, 8.5; Tago Mago, 9.5]
KidAExample ==
  /\ Len(args.fantanoReviews) = 1 /\ Len(args.scaruffiReviews) = 2
  /\ args.fantanoReviews[1].album = KidA /\ args.fantanoReviews[1].fantano_score = 900
  /\ args.scaruffiReviews[1].album = KidA /\ args.scaruffiReviews[1].scaruffi_score = 850
  /\ args.scaruffiReviews[2].album = TagoMago /\ args.scaruffiReviews[2].scaruffi_score = 950

\* C2: every Scaruffi review whose join key equals that of a Fantano review shows up
\* in the untruncated result as exactly one entry with that key, flagged overlap,
\* carrying both scores and a comparison; every other Scaruffi review is an entry of
\* its own; the Kid A example gives 2 entries, the Kid A overlap (difference 0.5) first.
C2_OverlapMerged ==
  (Merged /\ NotTruncated) =>
    /\ \A b \in DOMAIN args.scaruffiReviews :
         LET rb == args.scaruffiReviews[b]
             matches == EntriesWithKey(args.fantanoReviews, KeyOf(rb))
         IN  IF matches # {}
             THEN /\ Cardinality(EntriesWithKey(result, KeyOf(rb))) = 1
                  /\ \A i \in EntriesWithKey(result, KeyOf(rb)) :
                       /\ Flag(result[i], "overlap")
                       /\ \E a \in matches :
                            Prop(result[i], "fantano_score") = args.fantanoReviews[a].fantano_score
                       /\ Prop(result[i], "scaruffi_score") = rb.scaruffi_score
                       /\ "comparison" \in DOMAIN result[i]
             ELSE \E i \in DOMAIN result : result[i] = rb
    /\ KidAExample =>
         /\ Len(result) = 2
         /\ Flag(result[1], "overlap")
         /\ "comparison" \in DOMAIN result[1]
         /\ result[1].comparison.score_difference = 50

\* C7: mergeReviews returns min(limit, n) entries, n the length of the sorted merged
\* list, and they are the first entries of that list in the same order.
C7_LimitPrefix ==
  Merged =>
    LET sorted == SortedMerge(args.fantanoReviews, args.scaruffiReviews)
    IN  /\ Len(result) = Min(args.maxResults, Len(sorted))
        /\ \A i \in DOMAIN result : result[i] = sorted[i]

\* a limit of 1 that cuts a longer list down to its first entry
C7_Witness ==
  /\ Merged /\ args.maxResults = 1 /\ Len(result) = 1
  /\ Len(args.fantanoReviews) + Len(args.scaruffiReviews) = 2

\* the score difference of an overlap entry, the year of any entry (missing is 0)
ScoreDifference(entry) ==
  Abs(OrZero(Prop(entry, "fantano_score")) - OrZero(Prop(entry, "scaruffi_score")))
YearOrZero(entry) == OrZero(Prop(entry, "year"))

Compared == lastOp.op = "generateComparison"

BothPresent == args.fantano_score # NULL /\ args.scaruffi_score # NULL

\* C9: for two present scores the agreement level is 'agree' when their absolute
\* difference is below 1, 'disagree' when it is above 3, and 'similar' otherwise
\* (1 and 3 included).
C9_Classification ==
  (Compared /\ BothPresent) =>
    LET d == Abs(args.fantano_score - args.scaruffi_score)
    IN  /\ result # NoComparison
        /\ result.agreement_level =
             (CASE d < 100 -> "agree" [] d > 300 -> "disagree" [] OTHER -> "similar")

\* C10: the comparison is null exactly when a score is absent; two present scores,
\* a score of 0 included, give a comparison.
C10_NullIffAbsent ==
  Compared => ((result = NoComparison) <=> ~BothPresent)

\* C11: for two present scores higher_rating is 'similar' when their absolute
\* difference is at most 0.5 and otherwise the source with the strictly higher
\* score, whatever the agreement level.
C11_PreferredSource ==
  (Compared /\ BothPresent) =>
    LET d == Abs(args.fantano_score - args.scaruffi_score)
    IN  /\ result # NoComparison
        /\ result.higher_rating =
             (IF d <= 50 THEN "similar"
              ELSE IF args.fantano_score > args.scaruffi_score THEN "fantano" ELSE "scaruffi")

(***************************************************************************)
(* Properties of createAlbumKey (checked under SpecNormalize).             *)
(***************************************************************************)
Keyed == lastOp.op = "createAlbumKey"

\* a name without its punctuation, in lower case, with every whitespace run reduced
\* to one blank and none at either end: two names that differ only in letter case,
\* punctuation and the length of whitespace runs have the same underlying name
IsPunctuation(c) == c \notin Range(UpperCase) \cup Range(LowerCase) \cup Range(Digits) /\ ~IsSpace(c)
UnderlyingName(text) ==
  LET Kept(c) == ~IsPunctuation(c)
  IN  trim(CollapseSpaces(toLowerCase(SelectSeq(text, Kept))))

BothGiven == args.first.artist # NoText /\ args.second.artist # NoText

\* C12: two (artist, album) inputs that differ only in letter case, punctuation and
\* the length of whitespace runs (leading and trailing ones included) get the same
\* join key.
C12_SameKeyForSameNames ==
  (Keyed /\ BothGiven
     /\ UnderlyingName(args.first.artist) = UnderlyingName(args.second.artist)
     /\ UnderlyingName(args.first.album) = UnderlyingName(args.second.album))
    => result.first = result.second

\* C13: two inputs get the same join key only if their normalized artists are equal
\* and their normalized albums are equal.
C13_KeySeparatesFields ==
  (Keyed /\ result.first = result.second) =>
    /\ normalizeText(args.first.artist) = normalizeText(args.second.artist)
    /\ normalizeText(args.first.album) = normalizeText(args.second.album)

(***************************************************************************)
(* Properties of the store and of the queries (checked under Spec).        *)
(***************************************************************************)
Inserted == lastOp.op = "insertReview"
Queried  == lastOp.op \in {"getSourceReviews", "getAggregatedReviews", "getReviewStats"}

\* the result of a request computed from the rows alone
FreshResult(q, rows) ==
  CASE q.name = "getSourceReviews" ->
         TransformSource(getReviews(rows, q.artist, q.album, q.source, q.limit, 0), q.source)
    [] q.name = "getAggregatedReviews" ->
         IF q.includeOverlapOnly
         THEN TransformOverlaps(getOverlappingReviews(rows, q.artist, q.album, q.limit))
         ELSE mergeReviews(
                TransformSource(getReviews(rows, q.artist, q.album, "fantano",
                                           SourceLimit(q.limit), 0), "fantano"),
                TransformSource(getReviews(rows, q.artist, q.album, "scaruffi",
                                           SourceLimit(q.limit), 0), "scaruffi"),
                q.limit)
    [] q.name = "getReviewStats" -> getAllStats(rows, q.failed)

CacheKeyOf(q) ==
  CASE q.name = "getSourceReviews" -> SourceCacheKey(q.source, q.artist, q.album, q.limit)
    [] q.name = "getAggregatedReviews" ->
         AggregatedCacheKey(q.artist, q.album, q.limit, q.includeOverlapOnly)
    [] q.name = "getReviewStats" -> StatsCacheKey

\* the request does not consult the cache (GET /fantano?fresh=true)
Bypasses(q) == q.name = "getSourceReviews" /\ ~q.useCache

\* the cache holds an entry that cacheGet returns for the request's key
HasEntry(q) ==
  \/ MemoryLive(Stores, CacheKeyOf(q), now)
  \/ TableLive(Stores, CacheKeyOf(q), now)

\* C1 as stated: every query returns the result computed from the store as it is,
\* every upsert included.
C1_AlwaysFresh ==
  Queried => result = FreshResult(lastOp.request, reviews)

\* C1 as amended: a query that bypasses the cache, or finds no entry for its key in
\* it, returns the result computed from the store as it is, every upsert included.
C1_FreshUnlessCached ==
  [][(Queried' /\ (Bypasses(lastOp'.request) \/ ~HasEntry(lastOp'.request)))
       => result' = FreshResult(lastOp'.request, reviews')]_vars

\* the aggregate request with the filters and the limit of request q
AggregateOf(q) ==
  [name |-> "getAggregatedReviews", artist |-> q.artist, album |-> q.album,
   limit |-> q.limit, includeOverlapOnly |-> FALSE]

\* a review was upserted after the aggregate was cached: the cache still holds the
\* aggregate of the older rows, and a query that bypasses the cache returns the
\* result of the rows as they are
C1_Witness ==
  /\ Queried /\ Bypasses(lastOp.request)
  /\ result = FreshResult(lastOp.request, reviews) /\ result # <<>>
  /\ HasEntry(AggregateOf(lastOp.request))
  /\ CacheKeyOf(AggregateOf(lastOp.request)) \in DOMAIN cacheTable
  /\ cacheTable[CacheKeyOf(AggregateOf(lastOp.request))].value
       # FreshResult(AggregateOf(lastOp.request), reviews)

\* C3: no two stored reviews have the same normalized artist, normalized album and
\* reviewer.
C3_UniqueNormalized ==
  \A i, j \in DOMAIN reviews :
    (/\ normalizeText(reviews[i].artist) = normalizeText(reviews[j].artist)
     /\ normalizeText(reviews[i].album) = normalizeText(reviews[j].album)
     /\ reviews[i].reviewer = reviews[j].reviewer) => i = j

SameTuple(a, b) == a.artist = b.artist /\ a.album = b.album /\ a.reviewer = b.reviewer

\* C4: an upsert of an (artist, album, reviewer) that is already stored leaves exactly
\* one row for it, with the new score, and leaves every other row as it was.
C4_LastWriteWins ==
  (Inserted /\ \E i \in DOMAIN lastOp.before : SameTuple(lastOp.before[i], lastOp.reviewData)) =>
    LET new == lastOp.reviewData
        Other(rows) == {row \in Range(rows) : ~SameTuple(row, new)}
    IN  /\ Cardinality({i \in DOMAIN reviews : SameTuple(reviews[i], new)}) = 1
        /\ \A i \in DOMAIN reviews : SameTuple(reviews[i], new) => reviews[i] = new
        /\ FilterSeq(reviews, Other(reviews)) = FilterSeq(lastOp.before, Other(lastOp.before))

\* a stored review was upserted again with another score, next to a second review
C4_Witness ==
  /\ Inserted /\ Len(lastOp.before) = 2
  /\ \E i \in DOMAIN lastOp.before :
       /\ SameTuple(lastOp.before[i], lastOp.reviewData)
       /\ lastOp.before[i].score # lastOp.reviewData.score

\* the request was answered from the rows, not from the cache
Computed(name) == lastOp.op = name /\ ~lastOp.cached

\* the pairs of one stored review of each source with equal join keys
MatchingPairs ==
  {p \in (DOMAIN reviews) \X (DOMAIN reviews) :
     /\ reviews[p[1]].reviewer = "fantano" /\ reviews[p[2]].reviewer = "scaruffi"
     /\ KeyOf(reviews[p[1]]) = KeyOf(reviews[p[2]])}

\* C5: the overlap query (no filter, limit not reached) returns an entry for every
\* pair of one stored review of each source with equal join keys, and no other entry.
C5_OverlapByJoinKey ==
  (Computed("getAggregatedReviews") /\ lastOp.request.includeOverlapOnly
     /\ Cardinality(MatchingPairs) <= lastOp.request.limit) =>
    /\ \A p \in MatchingPairs :
         \E i \in DOMAIN result :
           /\ result[i].fantano_summary = reviews[p[1]].summary
           /\ result[i].scaruffi_summary = reviews[p[2]].summary
    /\ \A i \in DOMAIN result :
         \E p \in MatchingPairs :
           /\ result[i].fantano_summary = reviews[p[1]].summary
           /\ result[i].scaruffi_summary = reviews[p[2]].summary

\* every stored review of a source that matches the filters of request q
AllOf(rows, q, source) ==
  TransformSource(getReviews(rows, q.artist, q.album, source, Len(rows), 0), source)

\* C6: the aggregate is the first `limit` entries of the sorted merge of all stored
\* reviews of both sources that match the filters, so that no album stored for both
\* sources is returned as an entry of one source only.
C6_TruncatedAfterMerge ==
  (Computed("getAggregatedReviews") /\ ~lastOp.request.includeOverlapOnly) =>
    /\ result = mergeReviews(AllOf(reviews, lastOp.request, "fantano"),
                             AllOf(reviews, lastOp.request, "scaruffi"),
                             lastOp.request.limit)
    /\ \A i \in DOMAIN result :
         (\E p \in MatchingPairs : KeyOf(reviews[p[1]]) = KeyOf(result[i]))
           => Flag(result[i], "overlap")

(***************************************************************************)
(* Properties of the overlap query (checked under SpecOverlap).            *)
(***************************************************************************)
OverlapsComputed == Computed("getAggregatedReviews") /\ lastOp.request.includeOverlapOnly

\* the table with the two sources in each other's role
SwapSources(rows) ==
  [i \in DOMAIN rows |->
     [rows[i] EXCEPT !.reviewer = IF @ = "fantano" THEN "scaruffi" ELSE "fantano"]]

\* the album keys of a list of entries
Keys(list) == {KeyOf(list[i]) : i \in DOMAIN list}

\* the pairs of one stored review of each source that the join matches
JoinedPairs ==
  {p \in (DOMAIN reviews) \X (DOMAIN reviews) :
     /\ reviews[p[1]].reviewer = "fantano" /\ reviews[p[2]].reviewer = "scaruffi"
     /\ JoinCondition(reviews[p[1]], reviews[p[2]])}

\* the limit of the request does not cut the list of matched pairs
NotCut == Cardinality(JoinedPairs) <= lastOp.request.limit

\* the album keys matched with the sources in each other's role
SwappedKeys ==
  Keys(getOverlappingReviews(SwapSources(reviews), lastOp.request.artist,
                             lastOp.request.album, lastOp.request.limit))

\* C14 as stated: the album keys of the overlap entries are the same with the two
\* sources in each other's role, for every table.
C14_Symmetric ==
  OverlapsComputed => Keys(result) = SwappedKeys

\* C14 as amended: when the limit does not cut the list of matched pairs, the album
\* keys of the overlap entries are the same with the two sources in each other's
\* role, also when a source holds several reviews with the same key.
C14_SymmetricUncut ==
  (OverlapsComputed /\ NotCut) => Keys(result) = SwappedKeys

\* an album is matched that one source holds under two names, and nothing is cut
C14_Witness ==
  /\ OverlapsComputed /\ NotCut /\ result # <<>>
  /\ \E p, q \in JoinedPairs : p[1] # q[1] /\ p[2] = q[2]

\* the entry of the pair of stored reviews p, as the claim describes it: both sides'
\* raw fields, overlap = true, and the comparison c
EntryOf(p, c) ==
  [artist |-> reviews[p[1]].artist, album |-> reviews[p[1]].album, year |-> reviews[p[1]].year,
   fantano_score |-> reviews[p[1]].score, fantano_summary |-> reviews[p[1]].summary,
   fantano_url |-> reviews[p[1]].source_url,
   scaruffi_score |-> reviews[p[2]].score, scaruffi_summary |-> reviews[p[2]].summary,
   scaruffi_url |-> reviews[p[2]].source_url,
   overlap |-> TRUE, comparison |-> c]

\* C15: the overlap entries are in descending order of year, and entries of the same
\* year are in descending order of score difference.
C15_YearThenDifference ==
  OverlapsComputed =>
    \A i, j \in DOMAIN result :
      i < j =>
        /\ YearRank(result[i].year) >= YearRank(result[j].year)
        /\ (result[i].year = result[j].year
             /\ result[i].comparison # NoComparison /\ result[j].comparison # NoComparison)
            => result[i].comparison.score_difference >= result[j].comparison.score_difference

\* C16: a stored review without a score whose join key equals that of a stored review
\* of the other source is returned (when the limit cuts nothing) as an entry with both
\* sides' raw fields, overlap = true and no comparison.
C16_NoScoreStillOverlap ==
  (OverlapsComputed /\ Cardinality(MatchingPairs) <= lastOp.request.limit) =>
    \A p \in MatchingPairs :
      (reviews[p[1]].score = NULL \/ reviews[p[2]].score = NULL)
        => \E i \in DOMAIN result : result[i] = EntryOf(p, NoComparison)

(***************************************************************************)
(* The filtered queries: SimplifiedDatabase.getReviews, the two             *)
(* CompactDatabase.getReviews of the compact servers (one over better-      *)
(* sqlite3, one over the reviews loaded from a JSON file) with their        *)
(* routes, and GET /search/advanced of the service.                         *)
(***************************************************************************)
\* a value of req.query or of a filters object: absent, a number, or the text of
\* the number as it arrives in a query string
Undefined == [kind |-> "undefined"]
NumberValue(n) == [kind |-> "number", value |-> n]
StringValue(n) == [kind |-> "string", value |-> n]

\* if (v): undefined and the number 0 are falsy, the text "0" is not
Truthy(v) == v.kind = "string" \/ (v.kind = "number" /\ v.value # 0)
parseFloat(v) == v.value
\* req.query.min_score ? parseFloat(req.query.min_score) : undefined
ParsedOrUndefined(v) == IF Truthy(v) THEN NumberValue(parseFloat(v)) ELSE Undefined

\* the JSON server: (b.year || 0) - (a.year || 0), then (b.score || 0) - (a.score || 0)
CompareYearScore(a, b) ==
  \/ OrZero(a.year) > OrZero(b.year)
  \/ OrZero(a.year) = OrZero(b.year) /\ OrZero(a.score) > OrZero(b.score)

\* CompactDatabase.getReviews over the array of reviews; a null score compares as 0
CompactDatabase_getReviews(rows, filters) ==
  LET filtered == FilterSeq(rows, {r \in Range(rows) :
                    /\ Given(filters.artist)
                         => Contains(toLowerCase(r.artist), toLowerCase(filters.artist))
                    /\ Given(filters.album)
                         => Contains(toLowerCase(r.album), toLowerCase(filters.album))
                    /\ filters.reviewer # "" => r.reviewer = filters.reviewer
                    /\ Truthy(filters.min_score) => OrZero(r.score) >= parseFloat(filters.min_score)
                    /\ Truthy(filters.max_score) => OrZero(r.score) <= parseFloat(filters.max_score)})
      sorted == StableSort(filtered, {p \in Pairs(filtered) : CompareYearScore(p[1], p[2])})
      offset == OrZero(filters.offset)
      limit == IF Falsy(filters.limit) THEN 100 ELSE filters.limit
  IN  slice(sorted, offset, offset + limit)

\* ORDER BY year DESC, score DESC (NULL is the smallest value)
OrderByYearScore(a, b) ==
  \/ YearRank(a.year) > YearRank(b.year)
  \/ YearRank(a.year) = YearRank(b.year) /\ YearRank(a.score) > YearRank(b.score)

\* CompactDatabase.getReviews over the reviews table; a comparison with a NULL
\* score is not true; the statement has a LIMIT and no OFFSET
CompactDatabase_getReviewsSql(rows, filters) ==
  LET matching == FilterSeq(rows, {r \in Range(rows) :
                    /\ Given(filters.artist)
                         => Contains(toLowerCase(r.artist), toLowerCase(filters.artist))
                    /\ Given(filters.album)
                         => Contains(toLowerCase(r.album), toLowerCase(filters.album))
                    /\ filters.reviewer # "" => r.reviewer = filters.reviewer
                    /\ Truthy(filters.min_score)
                         => r.score # NULL /\ r.score >= parseFloat(filters.min_score)
                    /\ Truthy(filters.max_score)
                         => r.score # NULL /\ r.score <= parseFloat(filters.max_score)})
      ordered == StableSort(matching, {p \in Pairs(matching) : OrderByYearScore(p[1], p[2])})
      limit == IF Falsy(filters.limit) THEN 100 ELSE filters.limit
  IN  slice(ordered, 0, limit)

\* the compact servers' store, by the server that runs
CompactQuery(server, rows, filters) ==
  IF server = "json" THEN CompactDatabase_getReviews(rows, filters)
  ELSE CompactDatabase_getReviewsSql(rows, filters)

\* reviews.sort((a, b) => order * (b.score - a.score)), order = -1 for 'desc' and 1 otherwise
SortByScore(list, order) ==
  StableSort(list, {p \in Pairs(list) :
                      IF order = "desc" THEN OrZero(p[1].score) < OrZero(p[2].score)
                      ELSE OrZero(p[1].score) > OrZero(p[2].score)})

\* review.fantano_score || review.scaruffi_score: the number it compares as, or
\* undefined (which no comparison is true of)
EitherScore(review) ==
  IF ~Falsy(Prop(review, "fantano_score"))
  THEN [defined |-> TRUE, value |-> review.fantano_score]
  ELSE IF "scaruffi_score" \in DOMAIN review
       THEN [defined |-> TRUE, value |-> OrZero(review.scaruffi_score)]
       ELSE [defined |-> FALSE, value |-> 0]

\* the filter callback of GET /search/advanced
AdvancedFilter(review, q) ==
  LET score == EitherScore(review)
  IN  /\ ~(Truthy(q.min_score) /\ score.defined /\ score.value < parseFloat(q.min_score))
      /\ ~(Truthy(q.max_score) /\ score.defined /\ score.value > parseFloat(q.max_score))
      /\ ~(Truthy(q.year_from) /\ OrZero(review.year) < parseFloat(q.year_from))
      /\ ~(Truthy(q.year_to) /\ OrZero(review.year) > parseFloat(q.year_to))

AnyAdvancedFilter(q) ==
  Truthy(q.min_score) \/ Truthy(q.max_score) \/ Truthy(q.year_from) \/ Truthy(q.year_to)

\* a.fantano_score || a.scaruffi_score || 0
SortScore(review) ==
  IF ~Falsy(Prop(review, "fantano_score")) THEN review.fantano_score
  ELSE OrZero(Prop(review, "scaruffi_score"))

\* a.artist.localeCompare(b.artist) < 0: letters compare without their case first,
\* and a lower-case letter sorts ahead of its capital
LocaleLess(a, b) ==
  \/ TextLess(toLowerCase(a), toLowerCase(b))
  \/ toLowerCase(a) = toLowerCase(b) /\ TextLess(b, a)

\* the filtering and sorting of GET /search/advanced on the list the service returned
searchAdvanced(list, q) ==
  LET filtered == IF AnyAdvancedFilter(q)
                  THEN FilterSeq(list, {r \in Range(list) : AdvancedFilter(r, q)})
                  ELSE list
  IN  IF q.sort_by = "score"
      THEN StableSort(filtered, {p \in Pairs(filtered) :
                        IF q.order = "desc" THEN SortScore(p[1]) > SortScore(p[2])
                        ELSE SortScore(p[1]) < SortScore(p[2])})
      ELSE IF q.sort_by = "artist"
      THEN StableSort(filtered, {p \in Pairs(filtered) :
                        IF q.order = "desc" THEN LocaleLess(p[2].artist, p[1].artist)
                        ELSE LocaleLess(p[1].artist, p[2].artist)})
      ELSE filtered

\* reviews.sort works in place: without a filter the array sorted is the one that
\* getAggregatedReviews returned, which is the array the in-memory cache holds
SortedInPlace(stores, key, list, q) ==
  IF AnyAdvancedFilter(q) THEN stores
  ELSE [stores EXCEPT !.cache = Put(stores.cache, key, searchAdvanced(list, q))]

(***************************************************************************)
(* One filtered query on a store that holds reviews of both sources, with  *)
(* equal years, equal scores, a score of 0, a missing score and a missing  *)
(* year.                                                                   *)
(***************************************************************************)
QueryPool ==
  { Row(Radiohead, KidA, 2000, "fantano", 900, "q1"),
    Row(Can, TagoMago, 2000, "scaruffi", 450, "q2"),
    Row(Swans, TheSeer, 2012, "fantano", NULL, "q3"),
    Row(Swans, TheSeer, NULL, "scaruffi", 0, "q4"),
    Row(Radiohead, KidA, 2000, "scaruffi", 900, "q5") }

ArtistSubstrings == {NoText, <<"A", "N">>}
AlbumSubstrings == {NoText, <<"k", "i", "d">>}
ReviewerFilters == {"", "fantano"}
ScoreBounds == {Undefined, StringValue(0), StringValue(500)}
YearBounds == {Undefined, StringValue(2000)}
Sortings == {[sort_by |-> "year", order |-> "desc"], [sort_by |-> "score", order |-> "desc"],
             [sort_by |-> "score", order |-> "asc"], [sort_by |-> "artist", order |-> "desc"],
             [sort_by |-> "artist", order |-> "asc"]}
CompactServers == {"json", "sql"}

InitQuery ==
  /\ reviews \in TablesOf(QueryPool, MaxQueried)
  /\ cache = <<>> /\ cacheExpiry = <<>> /\ cacheTable = <<>>
  /\ now = StartTime
  /\ isInitialized = FALSE
  /\ lastOp = Idle
  /\ result = <<>>
  /\ args = <<>>

Answer(op, request, value) ==
  /\ lastOp = Idle
  /\ result' = value
  /\ lastOp' = [op |-> op, request |-> request, cached |-> FALSE]
  /\ UNCHANGED <<reviews, cache, cacheExpiry, cacheTable, now, isInitialized, args>>

\* a query of an ingestion script or of the service on its SimplifiedDatabase
QueryStore ==
  \E artist \in ArtistSubstrings, album \in AlbumSubstrings, reviewer \in ReviewerFilters,
     limit \in 1..MaxPage, offset \in 0..MaxOffset :
    Answer("getReviews",
           [artist |-> artist, album |-> album, reviewer |-> reviewer,
            limit |-> limit, offset |-> offset],
           getReviews(reviews, artist, album, reviewer, limit, offset))

\* GET /api/reviews of a compact server: database.getReviews(req.query)
ApiReviews ==
  \E server \in CompactServers,
     artist \in ArtistSubstrings, album \in AlbumSubstrings, reviewer \in ReviewerFilters,
     min_score \in ScoreBounds, max_score \in ScoreBounds,
     limit \in 1..MaxPage, offset \in 0..MaxOffset :
    LET filters == [artist |-> artist, album |-> album, reviewer |-> reviewer,
                    min_score |-> min_score, max_score |-> max_score,
                    limit |-> limit, offset |-> offset]
    IN  Answer("api/reviews", filters @@ [server |-> server],
               CompactQuery(server, reviews, filters))

\* GET /api/reviews/search/advanced of a compact server
ApiSearchAdvanced ==
  \E server \in CompactServers,
     artist \in ArtistSubstrings, album \in AlbumSubstrings, reviewer \in ReviewerFilters,
     min_score \in ScoreBounds, max_score \in ScoreBounds,
     limit \in 1..MaxPage, sorting \in {s \in Sortings : s.sort_by # "artist"} :
    LET filters == [min_score |-> ParsedOrUndefined(min_score),
                    max_score |-> ParsedOrUndefined(max_score),
                    artist |-> artist, album |-> album, reviewer |-> reviewer,
                    limit |-> limit, offset |-> NULL]
        found == CompactQuery(server, reviews, filters)
    IN  Answer("api/reviews/search/advanced",
               [artist |-> artist, album |-> album, reviewer |-> reviewer,
                min_score |-> min_score, max_score |-> max_score, limit |-> limit,
                sort_by |-> sorting.sort_by, order |-> sorting.order, server |-> server],
               IF sorting.sort_by = "score" THEN SortByScore(found, sorting.order) ELSE found)

\* GET /search/advanced of the service
SearchAdvanced ==
  \E min_score \in ScoreBounds, max_score \in ScoreBounds,
     year_from \in YearBounds, year_to \in YearBounds,
     limit \in 1..MaxPage, sorting \in Sortings :
    LET q == [artist |-> NoText, album |-> NoText, min_score |-> min_score,
              max_score |-> max_score, year_from |-> year_from, year_to |-> year_to,
              limit |-> limit, sort_by |-> sorting.sort_by, order |-> sorting.order,
              name |-> "search/advanced"]
        found == getAggregatedReviews(Stores, ensureInitialized(isInitialized, reviews),
                                      q.artist, q.album, q.limit, FALSE, now)
    IN  /\ lastOp = Idle
        /\ Respond(q, [found EXCEPT
                         !.value = searchAdvanced(found.value, q),
                         !.stores = SortedInPlace(found.stores,
                                      AggregatedCacheKey(q.artist, q.album, q.limit, FALSE),
                                      found.value, q)])

NextQuery == QueryStore \/ ApiReviews \/ ApiSearchAdvanced \/ SearchAdvanced

SpecQuery == InitQuery /\ [][NextQuery]_vars

\* a store query that takes an offset has answered
StoreQueried == lastOp.op \in {"getReviews", "api/reviews"}

\* the page of the answered query's filters with another limit and offset
PageOf(limit, offset) ==
  IF lastOp.op = "getReviews"
  THEN getReviews(reviews, lastOp.request.artist, lastOp.request.album,
                  lastOp.request.reviewer, limit, offset)
  ELSE CompactQuery(lastOp.request.server, reviews,
                    [lastOp.request EXCEPT !.limit = limit, !.offset = offset])

\* every record the filters select, in the order of the store's answer
FullResult == PageOf(Len(reviews) + 1, 0)

RowIndex(r) == CHOOSE i \in DOMAIN reviews : reviews[i] = r

\* a may come ahead of b: later year first, then higher score, then earlier insertion
\* (records without a year or without a score are not compared on it)
Ahead(a, b) ==
  (a.year # NULL /\ b.year # NULL) =>
    /\ a.year >= b.year
    /\ (a.year = b.year /\ a.score # NULL /\ b.score # NULL) =>
         /\ a.score >= b.score
         /\ a.score = b.score => RowIndex(a) < RowIndex(b)

\* C17: the records a store query selects are ordered by year descending, then score
\* descending, then insertion order, and the page returned for a limit and an offset
\* is the segment of that list from the offset on, so consecutive pages are disjoint
\* and concatenate to the full ordered result.
C17_OrderedPages ==
  StoreQueried =>
    /\ \A i, j \in DOMAIN FullResult : i < j => Ahead(FullResult[i], FullResult[j])
    /\ result = slice(FullResult, lastOp.request.offset,
                      lastOp.request.offset + lastOp.request.limit)

\* a filtered query has answered
FilteredQueried ==
  lastOp.op \in {"getReviews", "api/reviews", "api/reviews/search/advanced", "search/advanced"}

\* the request supplies the score bound of this name
Supplied(name) ==
  name \in DOMAIN lastOp.request /\ lastOp.request[name].kind # "undefined"

\* the scores a returned record carries (one of a stored review, up to two of an
\* aggregated entry)
ScoresOf(record) ==
  {Prop(record, "score"), Prop(record, "fantano_score"), Prop(record, "scaruffi_score")} \ {NULL}

WithinBounds(s) ==
  /\ Supplied("min_score") => s >= lastOp.request.min_score.value
  /\ Supplied("max_score") => s <= lastOp.request.max_score.value

\* C18: every record a filtered query returns satisfies every supplied filter: the
\* artist and album contain the given texts whatever the letter case, the reviewer
\* is the given one, and with a minimum or maximum score (0 included) the record
\* has a score and it is within the bounds.
C18_FiltersHold ==
  FilteredQueried =>
    \A i \in DOMAIN result :
      /\ Given(lastOp.request.artist)
           => Contains(toLowerCase(result[i].artist), toLowerCase(lastOp.request.artist))
      /\ Given(lastOp.request.album)
           => Contains(toLowerCase(result[i].album), toLowerCase(lastOp.request.album))
      /\ ("reviewer" \in DOMAIN lastOp.request /\ lastOp.request.reviewer # "")
           => result[i].reviewer = lastOp.request.reviewer
      /\ (Supplied("min_score") \/ Supplied("max_score"))
           => \E s \in ScoresOf(result[i]) : WithinBounds(s)

(***************************************************************************)
(* ScaruffiService.scrapeAllData: the scraped reviews are freed of         *)
(* duplicates and saved one by one; a failing insert is logged and the     *)
(* loop goes on.                                                           *)
(***************************************************************************)
\* a missing property in a template literal
TemplateText(t) == IF t = NoText THEN <<"u","n","d","e","f","i","n","e","d">> ELSE t

\* `${review.artist}_${review.album}`.toLowerCase()
DuplicateKey(review) ==
  toLowerCase(TemplateText(review.artist) \o <<"_">> \o TemplateText(review.album))

\* reviews.filter(...) with the set of keys seen: the first review of each key stays
RECURSIVE removeDuplicatesFrom(_, _)
removeDuplicatesFrom(list, seen) ==
  IF list = <<>> THEN <<>>
  ELSE IF DuplicateKey(Head(list)) \in seen THEN removeDuplicatesFrom(Tail(list), seen)
       ELSE <<Head(list)>> \o removeDuplicatesFrom(Tail(list), seen \cup {DuplicateKey(Head(list))})

removeDuplicates(list) == removeDuplicatesFrom(list, {})

\* the loop over uniqueReviews: the table and the logged warnings after it
RECURSIVE SaveAll(_, _, _)
SaveAll(list, rows, warnings) ==
  IF list = <<>> THEN [rows |-> rows, warnings |-> warnings]
  ELSE LET review == [Head(list) EXCEPT !.reviewer = "scaruffi"]
       IN  IF ViolatesNotNull(review)
           THEN SaveAll(Tail(list), rows, Append(warnings, review))
           ELSE SaveAll(Tail(list), insertReview(rows, review), warnings)

\* what a scrape can produce: a complete review, the same album in other letters,
\* reviews without an artist or an album, reviews with an empty artist or album
ScrapedPool ==
  { Row(Can, TagoMago, 1971, "scaruffi", 950, "r1"),
    Row(toLowerCase(Can), TagoMago, 1971, "scaruffi", 900, "r2"),
    Row(NoText, KidA, 2000, "scaruffi", 800, "r3"),
    Row(<<>>, KidA, 2000, "scaruffi", 800, "r4"),
    Row(Radiohead, <<>>, 2000, "scaruffi", 700, "r5"),
    Row(Radiohead, NoText, 2000, "scaruffi", 700, "r6") }

InitIngest ==
  /\ reviews \in {<<>>, <<Row(<<>>, KidA, 2000, "fantano", 900, "f0")>>,
                  <<Row(Can, TagoMago, 1971, "scaruffi", 500, "s0")>>}
  /\ cache = <<>> /\ cacheExpiry = <<>> /\ cacheTable = <<>>
  /\ now = StartTime
  /\ isInitialized = FALSE
  /\ lastOp = Idle
  /\ result = <<>>
  /\ args \in TablesOf(ScrapedPool, MaxScraped)

ScrapeAllData ==
  /\ lastOp = Idle
  /\ LET uniqueReviews == removeDuplicates(args)
         saved == SaveAll(uniqueReviews, reviews, <<>>)
     IN  /\ reviews' = saved.rows
         /\ result' = uniqueReviews
         /\ lastOp' = [op |-> "scrapeAllData", warnings |-> saved.warnings, before |-> reviews]
  /\ UNCHANGED <<cache, cacheExpiry, cacheTable, now, isInitialized, args>>

SpecIngest == InitIngest /\ [][ScrapeAllData]_vars

Scraped == lastOp.op = "scrapeAllData"

\* a raw record without an artist or an album, or with an empty one
Incomplete(review) ==
  review.artist = NoText \/ review.artist = <<>> \/ review.album = NoText \/ review.album = <<>>

\* C19: after a scrape no record of the scrape with a missing or empty artist or
\* album is in the store, and a scrape that met such a record does not return as
\* if every record had been saved: its caller is told of the rejection.
C19_IncompleteRejected ==
  Scraped =>
    /\ \A i \in DOMAIN reviews :
         Incomplete(reviews[i]) => \E j \in DOMAIN lastOp.before : lastOp.before[j] = reviews[i]
    /\ (\E i \in DOMAIN args : Incomplete(args[i])) => result # removeDuplicates(args)

(***************************************************************************)
(* The statistics when a statement on reviews.db can fail: GET /stats of   *)
(* the service, and the scheduler's cleanup job, which computes the same   *)
(* figures and writes them to the cache table through its own Database.    *)
(***************************************************************************)
\* ScrapingScheduler.calculateStats: the figures of getAllStats, {} when a statement fails
calculateStats(rows, failed) == IF failed THEN <<>> ELSE getAllStats(rows, FALSE)

SiteStatsKey == <<"site_stats">>

\* Database.cleanupExpiredCache: DELETE FROM cache WHERE expires_at <= CURRENT_TIMESTAMP
Database_cleanupExpiredCache(table, t) ==
  [k \in {x \in DOMAIN table : TimestampGreater(table[x].expires_at, SqlDatetime(t))} |-> table[k]]

\* Database.cacheSet: the row of the cache table only
Database_cacheSet(table, key, value, ttlSeconds, t) ==
  Put(table, key, [value |-> value, expires_at |-> toISOString(t + ttlSeconds \div 1800)])

InitStats ==
  /\ reviews \in StoredTables
  /\ cache = <<>> /\ cacheExpiry = <<>> /\ cacheTable = <<>>
  /\ now = StartTime
  /\ isInitialized = FALSE
  /\ lastOp = Idle
  /\ result = <<>>
  /\ args = <<>>

\* the 'cleanup' job of the processing queue
CleanupJob(failed) ==
  LET stats == calculateStats(reviews, failed)
  IN  /\ cacheTable' = Database_cacheSet(Database_cleanupExpiredCache(cacheTable, now),
                                         SiteStatsKey, stats, 3600, now)
      /\ result' = [success |-> TRUE, stats |-> stats]
      /\ lastOp' = [op |-> "cleanup", request |-> [name |-> "cleanup", failed |-> failed],
                    cached |-> FALSE]
      /\ UNCHANGED <<reviews, cache, cacheExpiry, now, isInitialized, args>>

NextStats == \E failed \in BOOLEAN : GetReviewStats(failed) \/ CleanupJob(failed)

SpecStats == InitStats /\ [][NextStats]_vars

\* what a caller holds when the failure of the store reaches it
StoreFailure == [error |-> "SqliteError"]

\* the statistics of the last answer
StatsOf(answer) == IF lastOp.op = "cleanup" THEN answer.stats ELSE answer

\* C20: a statistics request whose store query failed ends in that failure for the
\* caller, never in a successful result, and nothing computed from a failed query
\* is in the cache or served from it.
C20_FailurePropagated ==
  lastOp.op \in {"getReviewStats", "cleanup"} =>
    /\ (lastOp.request.failed /\ ~lastOp.cached) => result = StoreFailure
    /\ StatsOf(result) # <<>>
    /\ \A key \in DOMAIN cacheTable : cacheTable[key].value # <<>>
    /\ \A key \in DOMAIN cache : cache[key] # <<>>

(***************************************************************************)
(* The cache operations on their own: the service's cacheSet and cacheGet, *)
(* the daily cleanupExpiredCache, the clock, and a restart of the process, *)
(* which empties the in-memory maps and keeps the cache table.             *)
(***************************************************************************)
\* the keys the service writes, with the TTL it passes for each
CacheWrites ==
  { [key |-> SourceCacheKey("fantano", NoText, NoText, 1), ttlSeconds |-> 3600],
    [key |-> AggregatedCacheKey(NoText, NoText, 1, FALSE), ttlSeconds |-> 1800] }

CachedValue == <<"cached">>

\* cleanupExpiredCache: the in-memory entries with now >= expiry go; the DELETE
\* ... WHERE expires_at <= datetime("now") removes the rows that are not greater as
\* texts, or fails (logged) when the build rejects the double-quoted "now"
cleanupExpiredCache(c, t, deleteWorks) ==
  [cache |-> [k \in {x \in DOMAIN c.cache : ~(x \in DOMAIN c.cacheExpiry /\ t >= c.cacheExpiry[x])}
                |-> c.cache[k]],
   cacheExpiry |-> [k \in {x \in DOMAIN c.cacheExpiry : t < c.cacheExpiry[x]} |-> c.cacheExpiry[k]],
   cacheTable |-> IF deleteWorks
                  THEN [k \in {x \in DOMAIN c.cacheTable :
                                 TimestampGreater(c.cacheTable[x].expires_at, SqlDatetime(t))}
                          |-> c.cacheTable[k]]
                  ELSE c.cacheTable]

CacheStart == StartTime - 2   \* 22:30

\* args records, for each key, when the TTL of its most recent cacheSet elapses
InitCache ==
  /\ reviews = <<>>
  /\ cache = <<>> /\ cacheExpiry = <<>> /\ cacheTable = <<>>
  /\ now = CacheStart
  /\ isInitialized = FALSE
  /\ lastOp = Idle
  /\ result = <<>>
  /\ args = <<>>

SetStores(c) ==
  /\ cache' = c.cache
  /\ cacheExpiry' = c.cacheExpiry
  /\ cacheTable' = c.cacheTable

CacheSet(w) ==
  /\ SetStores(cacheSet(Stores, w.key, CachedValue, w.ttlSeconds, now))
  /\ args' = Put(args, w.key, now + w.ttlSeconds \div 1800)
  /\ lastOp' = [op |-> "cacheSet", key |-> w.key]
  /\ result' = <<>>
  /\ UNCHANGED <<reviews, now, isInitialized>>

CacheGet(key) ==
  /\ SetStores(cacheGet(Stores, key, now).stores)
  /\ lastOp' = [op |-> "cacheGet", key |-> key, hit |-> cacheGet(Stores, key, now).hit]
  /\ result' = cacheGet(Stores, key, now).value
  /\ UNCHANGED <<reviews, now, isInitialized, args>>

CleanupExpiredCache(deleteWorks) ==
  /\ SetStores(cleanupExpiredCache(Stores, now, deleteWorks))
  /\ lastOp' = [op |-> "cleanupExpiredCache"]
  /\ result' = <<>>
  /\ UNCHANGED <<reviews, now, isInitialized, args>>

CacheTick ==
  /\ now < CacheStart + MaxCacheTicks
  /\ now' = now + 1
  /\ lastOp' = Idle
  /\ result' = <<>>
  /\ UNCHANGED <<reviews, cache, cacheExpiry, cacheTable, isInitialized, args>>

\* the process is started again: new Map() for cache and cacheExpiry
Restart ==
  /\ cache' = <<>> /\ cacheExpiry' = <<>>
  /\ lastOp' = [op |-> "restart"]
  /\ result' = <<>>
  /\ UNCHANGED <<reviews, cacheTable, now, isInitialized, args>>

NextCache ==
  \/ \E w \in CacheWrites : CacheSet(w)
  \/ \E w \in CacheWrites : CacheGet(w.key)
  \/ \E deleteWorks \in BOOLEAN : CleanupExpiredCache(deleteWorks)
  \/ CacheTick
  \/ Restart

SpecCache == InitCache /\ [][NextCache]_vars

\* C21: cacheGet(key) returns a value only while the TTL of the most recent
\* cacheSet(key, value, ttl) has not elapsed, restored entries included.
C21_LiveOnlyWithinTtl ==
  (lastOp.op = "cacheGet" /\ lastOp.hit) =>
    (lastOp.key \in DOMAIN args /\ now < args[lastOp.key])

\* the fields of a comparison that the two servers share
SharedFields(comparison) ==
  IF comparison = NoComparison THEN NoComparison
  ELSE [score_difference |-> comparison.score_difference,
        average_score |-> comparison.average_score,
        agreement_level |-> comparison.agreement_level,
        higher_rating |-> comparison.higher_rating]

\* C22: for every pair of scores the comparison of the compact server has the same
\* score_difference, average_score, agreement_level and higher_rating as the
\* comparison of the original service.
C22_SameComparison ==
  lastOp.op = "compact generateComparison" =>
    SharedFields(result) = SharedFields(generateComparison(args))

(***************************************************************************)
(* The ingestion runs that look a review up before they insert it:         *)
(* SimplifiedScrapers.scrapeFantanoRSS and RealScrapers.scrapeScaruffi     *)
(* (UltimateScrapers and MegaScrapers run the same loop).                  *)
(***************************************************************************)
\* one turn of the loop: existing = getReviews({artist, album, reviewer}); the review
\* is inserted if existing.length === 0; the INSERT throws on a NULL artist or album
addIfNew(rows, review) ==
  LET existing == getReviews(rows, review.artist, review.album, review.reviewer, 100, 0)
  IN  IF existing # <<>> THEN [rows |-> rows, added |-> FALSE, threw |-> FALSE]
      ELSE IF ViolatesNotNull(review) THEN [rows |-> rows, added |-> FALSE, threw |-> TRUE]
      ELSE [rows |-> insertReview(rows, review), added |-> TRUE, threw |-> FALSE]

\* scrapeFantanoRSS: each video in its own try block; the reviews added are returned
RECURSIVE FantanoLoop(_, _, _)
FantanoLoop(list, rows, added) ==
  IF list = <<>> THEN [rows |-> rows, value |-> added, threw |-> FALSE]
  ELSE LET turn == addIfNew(rows, [Head(list) EXCEPT !.reviewer = "fantano"])
       IN  FantanoLoop(Tail(list), turn.rows,
                       IF turn.added THEN Append(added, Head(list)) ELSE added)

\* scrapeScaruffi: one try block around the loop; reviews.slice(0, addedCount) is returned
RECURSIVE ScaruffiLoop(_, _, _, _)
ScaruffiLoop(list, all, rows, addedCount) ==
  IF list = <<>> THEN [rows |-> rows, value |-> slice(all, 0, addedCount), threw |-> FALSE]
  ELSE LET turn == addIfNew(rows, [Head(list) EXCEPT !.reviewer = "scaruffi"])
       IN  IF turn.threw THEN [rows |-> rows, value |-> <<>>, threw |-> TRUE]
           ELSE ScaruffiLoop(Tail(list), all, turn.rows,
                             IF turn.added THEN addedCount + 1 ELSE addedCount)

KidAMnesia == KidA \o <<" ", "M", "n", "e", "s", "i", "a">>

\* what the store holds before a run, and what a run finds: an album already stored
\* with another score, an album whose names are part of a stored album's names, new ones
KeptPool ==
  { Row(Radiohead, KidA, 2000, "fantano", 900, "k1"),
    Row(Radiohead, KidAMnesia, 2021, "fantano", 800, "k2"),
    Row(Can, TagoMago, 1971, "scaruffi", 950, "k3"),
    Row(Radiohead, KidAMnesia, 2021, "scaruffi", 600, "k4") }

FoundPool ==
  { Row(Radiohead, KidA, 2000, "", 700, "n1"),
    Row(Can, TagoMago, 1971, "", 800, "n2"),
    Row(Swans, TheSeer, 2012, "", NULL, "n3"),
    Row(toLowerCase(Radiohead), toLowerCase(KidA), 2000, "", 500, "n4") }

InitScrape ==
  /\ reviews \in TablesOf(KeptPool, MaxKept)
  /\ cache = <<>> /\ cacheExpiry = <<>> /\ cacheTable = <<>>
  /\ now = StartTime
  /\ isInitialized = FALSE
  /\ lastOp = Idle
  /\ result = <<>>
  /\ args \in TablesOf(FoundPool, MaxFound)

Ran(op, reviewer, run) ==
  /\ lastOp = Idle
  /\ reviews' = run.rows
  /\ result' = run.value
  /\ lastOp' = [op |-> op, reviewer |-> reviewer, threw |-> run.threw, before |-> reviews]
  /\ UNCHANGED <<cache, cacheExpiry, cacheTable, now, isInitialized, args>>

ScrapeFantanoRSS == Ran("scrapeFantanoRSS", "fantano", FantanoLoop(args, reviews, <<>>))

ScrapeScaruffi == Ran("scrapeScaruffi", "scaruffi", ScaruffiLoop(args, args, reviews, 0))

NextScrape == ScrapeFantanoRSS \/ ScrapeScaruffi

SpecScrape == InitScrape /\ [][NextScrape]_vars

RunDone == lastOp.op \in {"scrapeFantanoRSS", "scrapeScaruffi"} /\ ~lastOp.threw

\* the rows of a table with the (artist, album, reviewer) of the found review
StoredAs(rows, found) ==
  {i \in DOMAIN rows : /\ rows[i].artist = found.artist /\ rows[i].album = found.album
                       /\ rows[i].reviewer = lastOp.reviewer}

\* C23: after an ingestion run, a found review whose (artist, album, reviewer) was
\* stored with another score has replaced the stored record: the store holds the
\* new score.
C23_NewScoreStored ==
  RunDone =>
    \A i \in DOMAIN args :
      (\E j \in StoredAs(lastOp.before, args[i]) : lastOp.before[j].score # args[i].score)
        => \E j \in StoredAs(reviews, args[i]) : reviews[j].score = args[i].score

\* C29: after an ingestion run, every found review whose exact (artist, album,
\* reviewer) was not stored is in the store, whatever else was stored.
C29_NewReviewInserted ==
  RunDone =>
    \A i \in DOMAIN args :
      StoredAs(lastOp.before, args[i]) = {} => StoredAs(reviews, args[i]) # {}

(***************************************************************************)
(* The score a scraper reads from a video title.  A title is described by  *)
(* the number it names, the rating word right before that number, whether  *)
(* "/10" follows the number, and another word it holds elsewhere.          *)
(***************************************************************************)
Titles ==
  [rating : {"strong", "decent", "light", "none"}, n : 0..MaxRating,
   outOfTen : BOOLEAN, also : {"strong", "light", "none"}]

\* title.toLowerCase().includes(word)
TitleIncludes(title, word) == title.rating = word \/ title.also = word

\* title.match(pattern): the number the pattern captures, NULL if it does not match
Captured(title, pattern) ==
  IF pattern.word = "/10" THEN (IF title.outOfTen THEN title.n ELSE NULL)
  ELSE IF title.rating = pattern.word THEN title.n ELSE NULL

\* the patterns in the order the loops try them, with TurboScrapers' modifiers
scorePatterns ==
  << [word |-> "strong", modifier |-> 30], [word |-> "decent", modifier |-> 0],
     [word |-> "light", modifier |-> -30], [word |-> "/10", modifier |-> 0] >>

\* the adjustment by the words of the whole title (SimplifiedScrapers, YouTubeService)
ByWords(title, score) ==
  IF TitleIncludes(title, "strong") THEN score * 100 + 30
  ELSE IF TitleIncludes(title, "light") THEN score * 100 - 30
  ELSE score * 100

\* SimplifiedScrapers.extractScoreFromTitle and YouTubeService.extractScore: the first
\* pattern whose number is within 0..10 decides; otherwise the default is returned
RECURSIVE FirstInRange(_, _, _)
FirstInRange(title, patterns, default) ==
  IF patterns = <<>> THEN default
  ELSE LET score == Captured(title, Head(patterns))
       IN  IF score # NULL /\ score >= 0 /\ score <= 10 THEN ByWords(title, score)
           ELSE FirstInRange(title, Tail(patterns), default)

Simplified_extractScoreFromTitle(title) == FirstInRange(title, scorePatterns, 600)

extractScore(title) == FirstInRange(title, scorePatterns, NULL)

\* TurboScrapers.extractScoreFromTitle: Math.round((baseScore + modifier) * 10) / 10
RECURSIVE Turbo_FirstInRange(_, _)
Turbo_FirstInRange(title, patterns) ==
  IF patterns = <<>> THEN 700
  ELSE LET baseScore == Captured(title, Head(patterns))
       IN  IF baseScore # NULL /\ baseScore >= 0 /\ baseScore <= 10
           THEN 10 * ((baseScore * 100 + Head(patterns).modifier + 5) \div 10)
           ELSE Turbo_FirstInRange(title, Tail(patterns))

Turbo_extractScoreFromTitle(title) == Turbo_FirstInRange(title, scorePatterns)

InitTitle ==
  /\ reviews = <<>>
  /\ cache = <<>> /\ cacheExpiry = <<>> /\ cacheTable = <<>>
  /\ now = StartTime
  /\ isInitialized = FALSE
  /\ lastOp = Idle
  /\ result = <<>>
  /\ args \in Titles

\* the review of the video is built with the extracted score and saved
SaveVideoReview(op, score) ==
  /\ lastOp = Idle
  /\ reviews' = insertReview(reviews, Row(Radiohead, KidA, 2000, "fantano", score, "video"))
  /\ result' = score
  /\ lastOp' = [op |-> op]
  /\ UNCHANGED <<cache, cacheExpiry, cacheTable, now, isInitialized, args>>

ProcessFantanoVideo == SaveVideoReview("processFantanoVideo", Simplified_extractScoreFromTitle(args))

TurboProcessVideo == SaveVideoReview("turbo processVideo", Turbo_extractScoreFromTitle(args))

YouTubeProcessVideo == SaveVideoReview("processVideo", extractScore(args))

NextTitle == ProcessFantanoVideo \/ TurboProcessVideo \/ YouTubeProcessVideo

SpecTitle == InitTitle /\ [][NextTitle]_vars

\* C26: every review a scraper has stored has no score or a score within [0, 10],
\* whatever rating ('strong N', 'decent N', 'light N', 'N/10') the title names.
C26_ScoreInRange ==
  \A i \in DOMAIN reviews :
    reviews[i].score = NULL \/ (reviews[i].score >= 0 /\ reviews[i].score <= 1000)

(***************************************************************************)
(* A sequence of GET /search/advanced and GET /all requests to the         *)
(* service, whose store holds the demo data.                               *)
(***************************************************************************)
\* GET /search/advanced, at any time
AdvancedSearch ==
  \E min_score \in ScoreBounds, year_from \in YearBounds,
     limit \in 1..MaxLimit, sorting \in Sortings :
    LET q == [artist |-> NoText, album |-> NoText, min_score |-> min_score,
              max_score |-> Undefined, year_from |-> year_from, year_to |-> Undefined,
              limit |-> limit, sort_by |-> sorting.sort_by, order |-> sorting.order,
              name |-> "search/advanced"]
        found == getAggregatedReviews(Stores, ensureInitialized(isInitialized, reviews),
                                      q.artist, q.album, q.limit, FALSE, now)
    IN  Respond(q, [found EXCEPT
                      !.value = searchAdvanced(found.value, q),
                      !.stores = SortedInPlace(found.stores,
                                   AggregatedCacheKey(q.artist, q.album, q.limit, FALSE),
                                   found.value, q)])

\* GET /all
All == \E limit \in 1..MaxLimit : GetAggregatedReviews(NoText, NoText, limit, FALSE)

NextAdvanced == AdvancedSearch \/ All

SpecAdvanced == Init /\ [][NextAdvanced]_vars

NoStores == [cache |-> <<>>, cacheExpiry |-> <<>>, cacheTable |-> <<>>]

\* the aggregate of the stored reviews, in the order mergeReviews gives it
FreshAggregate(rows, limit) ==
  getAggregatedReviews(NoStores, rows, NoText, NoText, limit, FALSE, now).value

\* C27: whatever advanced searches were served before, GET /all returns the
\* aggregate of the stored reviews in the aggregate order.
C27_AggregateUnchanged ==
  lastOp.op = "getAggregatedReviews" => result = FreshAggregate(reviews, lastOp.request.limit)

(***************************************************************************)
(* Requests that arrive while the service starts.  Each request calls      *)
(* ensureInitialized; args holds the service that is running, where each   *)
(* call stands, how often the body of initialize was entered and how many  *)
(* schedulers have their cron jobs scheduled.                              *)
(*   WorkingReviewService: better-sqlite3 is synchronous, so initialize    *)
(*   runs to its end before the handler of another request starts.         *)
(*   EnhancedReviewService: Database.initialize and scheduler.initialize   *)
(*   wait for I/O, and other requests are handled meanwhile.               *)
(***************************************************************************)
InitStartup ==
  /\ InitService
  /\ args \in [service : {"working", "enhanced"},
               pc : [1..MaxCalls -> {"arrived"}],
               bodies : {0}, schedulers : {0}]

Moved(call, pc) == [args EXCEPT !.pc[call] = pc]

Step(op, call) ==
  /\ lastOp' = [op |-> op, call |-> call]
  /\ result' = <<>>
  /\ UNCHANGED <<cache, cacheExpiry, cacheTable, now>>

\* WorkingReviewService.ensureInitialized, initialize included
Working_ensureInitialized(call) ==
  /\ args.service = "working" /\ args.pc[call] = "arrived"
  /\ reviews' = ensureInitialized(isInitialized, reviews)
  /\ isInitialized' = TRUE
  /\ args' = [Moved(call, "ready") EXCEPT
                !.bodies = IF isInitialized THEN @ ELSE @ + 1]
  /\ Step("ensureInitialized", call)

\* EnhancedReviewService.ensureInitialized up to "await this.database.initialize()"
Enhanced_ensureInitialized(call) ==
  /\ args.service = "enhanced" /\ args.pc[call] = "arrived"
  /\ args' = IF isInitialized THEN Moved(call, "ready")
             ELSE [Moved(call, "database") EXCEPT !.bodies = @ + 1]
  /\ Step("ensureInitialized", call)
  /\ UNCHANGED <<reviews, isInitialized>>

\* the database is open: the services and the scheduler are created, up to
\* "await this.scheduler.initialize()"
Enhanced_databaseInitialized(call) ==
  /\ args.pc[call] = "database"
  /\ args' = Moved(call, "scheduler")
  /\ Step("new ScrapingScheduler", call)
  /\ UNCHANGED <<reviews, isInitialized>>

\* the scheduler is initialized: scheduleJobs, isInitialized = true
Enhanced_schedulerInitialized(call) ==
  /\ args.pc[call] = "scheduler"
  /\ args' = [Moved(call, "ready") EXCEPT !.schedulers = @ + 1]
  /\ isInitialized' = TRUE
  /\ Step("scheduleJobs", call)
  /\ UNCHANGED reviews

NextStartup ==
  \E call \in 1..MaxCalls :
    \/ Working_ensureInitialized(call)
    \/ Enhanced_ensureInitialized(call)
    \/ Enhanced_databaseInitialized(call)
    \/ Enhanced_schedulerInitialized(call)

SpecStartup == InitStartup /\ [][NextStartup]_vars

\* C28: however the requests that arrive before the service is initialized
\* interleave, the body of initialize is entered at most once, and at most one
\* scheduler has its cron jobs scheduled.
C28_InitializedOnce == args.bodies <= 1 /\ args.schedulers <= 1

(***************************************************************************)
(* ScrapingScheduler: the three Bull queues, their processors, and the     *)
(* POST /scrape routes.  args holds the names of the jobs that wait in     *)
(* each queue, the jobs and route handlers in progress, the youtube_videos *)
(* table, how often the review of the video was upserted, and which jobs   *)
(* were processed or failed.  The channel shows one album-review video.    *)
(***************************************************************************)
QueueNames == {"youtubeQueue", "scaruffiQueue", "processingQueue"}

JobNames == {"scrape-latest", "monitor-channel", "process-video", "scrape-scaruffi",
             "search-artist", "enhance-summary", "cleanup", "process-review"}

\* queue.process(name, concurrency, handler): the processors of setupJobProcessors
Processors(queue) ==
  CASE queue = "youtubeQueue" ->
         ("scrape-latest" :> 1) @@ ("monitor-channel" :> 1) @@ ("process-video" :> 2)
    [] queue = "scaruffiQueue" -> ("scrape-scaruffi" :> 1) @@ ("search-artist" :> 1)
    [] queue = "processingQueue" -> ("enhance-summary" :> 5) @@ ("cleanup" :> 1)

\* the cron callbacks of scheduleJobs
CronJobs ==
  { [queue |-> "youtubeQueue", name |-> "scrape-latest"],
    [queue |-> "youtubeQueue", name |-> "monitor-channel"],
    [queue |-> "scaruffiQueue", name |-> "scrape-scaruffi"],
    [queue |-> "processingQueue", name |-> "cleanup"] }

LatestVideo == "v1"
VideoReview == Row(Radiohead, KidA, 2000, "fantano", 900, LatestVideo)
ScaruffiReview == Row(Can, TagoMago, 1971, "scaruffi", 950, "s1")

InitScheduler ==
  /\ InitService
  /\ args = [waiting |-> [queue \in QueueNames |-> <<>>], active |-> <<>>,
             requests |-> 0, videos |-> {}, upserts |-> 0,
             processed |-> {}, failed |-> {}]

\* queue.add(name, data)
Added(a, queue, name) == [a EXCEPT !.waiting[queue] = Append(@, name)]

RemoveAt(s, i) == SubSeq(s, 1, i - 1) \o SubSeq(s, i + 1, Len(s))

\* the handler of job i has returned
Finished(a, i) ==
  [a EXCEPT !.active = RemoveAt(@, i),
            !.processed = @ \cup {<<a.active[i].queue, a.active[i].name>>}]

InProgress(i, queue, name, pc) ==
  /\ i \in DOMAIN args.active
  /\ args.active[i] = [queue |-> queue, name |-> name, pc |-> pc]

SchedulerStep(op, a, rows) ==
  /\ args' = a
  /\ reviews' = rows
  /\ lastOp' = [op |-> op]
  /\ result' = <<>>
  /\ UNCHANGED <<cache, cacheExpiry, cacheTable, now, isInitialized>>

Requested == [args EXCEPT !.requests = @ + 1]

\* a cron callback fires
CronFires ==
  \E job \in CronJobs :
    /\ args.requests < MaxRequests
    /\ SchedulerStep("cron", Added(Requested, job.queue, job.name), reviews)

\* manualScrape(source)
ManualScrape ==
  \E source \in {"fantano", "scaruffi"} :
    /\ args.requests < MaxRequests
    /\ SchedulerStep("manualScrape",
                     IF source = "fantano" THEN Added(Requested, "youtubeQueue", "scrape-latest")
                     ELSE Added(Requested, "scaruffiQueue", "scrape-scaruffi"),
                     reviews)

\* searchArtist(artistName)
SearchArtist ==
  /\ args.requests < MaxRequests
  /\ SchedulerStep("searchArtist",
                   Added(Added(Requested, "youtubeQueue", "search-artist"),
                         "scaruffiQueue", "search-artist"),
                   reviews)

\* POST /scrape/fantano, /scrape/scaruffi, /scrape/all: the handler starts its scrape
PostScrape ==
  \E route \in {"scrape/fantano", "scrape/scaruffi", "scrape/all"} :
    /\ args.requests < MaxRequests
    /\ SchedulerStep("POST " \o route,
                     [Requested EXCEPT !.active =
                        Append(@, [queue |-> "routes", name |-> route, pc |-> "started"])],
                     reviews)

\* ... and its scrape returns: every review found is inserted unless one is stored
ScrapeReturns(i) ==
  \E route \in {"scrape/fantano", "scrape/scaruffi", "scrape/all"} :
    /\ InProgress(i, "routes", route, "started")
    /\ LET fantano == IF route = "scrape/scaruffi" THEN reviews
                      ELSE addIfNew(reviews, VideoReview).rows
           both == IF route = "scrape/fantano" THEN fantano
                   ELSE addIfNew(fantano, ScaruffiReview).rows
       IN  SchedulerStep("scrape returns", Finished(args, i), both)

Running(queue, name) ==
  Cardinality({i \in DOMAIN args.active :
                 args.active[i].queue = queue /\ args.active[i].name = name})

\* a worker of the queue takes the job that waits longest: a job whose name has no
\* processor fails, another one starts when its processor has a free slot
Take(queue) ==
  /\ args.waiting[queue] # <<>>
  /\ LET name == Head(args.waiting[queue])
         taken == [args EXCEPT !.waiting[queue] = Tail(@)]
     IN  IF name \notin DOMAIN Processors(queue)
         THEN SchedulerStep("Missing process handler",
                            [taken EXCEPT !.failed = @ \cup {<<queue, name>>}], reviews)
         ELSE /\ Running(queue, name) < Processors(queue)[name]
              /\ SchedulerStep("start",
                               [taken EXCEPT !.active =
                                  Append(@, [queue |-> queue, name |-> name, pc |-> "started"])],
                               reviews)

\* YouTubeService.processVideo, called by 'scrape-latest' and by 'process-video':
\* SELECT id FROM youtube_videos WHERE video_id = ?
ProcessVideo_check(i) ==
  \E name \in {"scrape-latest", "process-video"} :
    /\ InProgress(i, "youtubeQueue", name, "started")
    /\ SchedulerStep("processVideo: check",
                     [args EXCEPT !.active[i].pc =
                        IF LatestVideo \in args.videos THEN "existing" ELSE "new"],
                     reviews)

\* ... then, after getTranscript, insertYouTubeVideo and insertReview (an INSERT that
\* throws makes processVideo return null); the job queues the next job and returns
ProcessVideo_save(i) ==
  \E name \in {"scrape-latest", "process-video"}, pc \in {"existing", "new"},
     inserted \in BOOLEAN :
    /\ InProgress(i, "youtubeQueue", name, pc)
    /\ LET review == pc = "new" /\ inserted
           saved == IF review
                    THEN [args EXCEPT !.videos = @ \cup {LatestVideo}, !.upserts = @ + 1]
                    ELSE args
           next == IF ~review THEN saved
                   ELSE IF name = "scrape-latest"
                        THEN Added(saved, "processingQueue", "process-review")
                        ELSE Added(saved, "processingQueue", "enhance-summary")
       IN  SchedulerStep("processVideo: save", Finished(next, i),
                         IF review THEN insertReview(reviews, VideoReview) ELSE reviews)

\* 'monitor-channel': a video that is not in youtube_videos gets a 'process-video' job
MonitorChannel(i) ==
  /\ InProgress(i, "youtubeQueue", "monitor-channel", "started")
  /\ SchedulerStep("monitor-channel",
                   Finished(IF LatestVideo \in args.videos THEN args
                            ELSE Added(args, "youtubeQueue", "process-video"), i),
                   reviews)

\* 'scrape-scaruffi': the scrape saves its reviews; each one gets a 'process-review' job
ScrapeScaruffiJob(i) ==
  /\ InProgress(i, "scaruffiQueue", "scrape-scaruffi", "started")
  /\ SchedulerStep("scrape-scaruffi",
                   Finished(Added(args, "processingQueue", "process-review"), i),
                   insertReview(reviews, ScaruffiReview))

\* 'search-artist' of the scaruffiQueue: insertReview for every review found
SearchArtistJob(i) ==
  /\ InProgress(i, "scaruffiQueue", "search-artist", "started")
  /\ SchedulerStep("search-artist", Finished(args, i), insertReview(reviews, ScaruffiReview))

\* 'enhance-summary' and 'cleanup'
ProcessingJob(i) ==
  \E name \in {"enhance-summary", "cleanup"} :
    /\ InProgress(i, "processingQueue", name, "started")
    /\ SchedulerStep(name, Finished(args, i), reviews)

\* what the workers and the handlers in progress do
Work ==
  \/ \E queue \in QueueNames : Take(queue)
  \/ \E i \in 1..(3 * MaxRequests) :
       \/ ScrapeReturns(i)
       \/ ProcessVideo_check(i)
       \/ ProcessVideo_save(i)
       \/ MonitorChannel(i)
       \/ ScrapeScaruffiJob(i)
       \/ SearchArtistJob(i)
       \/ ProcessingJob(i)

NextScheduler == CronFires \/ ManualScrape \/ SearchArtist \/ PostScrape \/ Work

SpecScheduler == InitScheduler /\ [][NextScheduler]_vars

\* the workers keep working
SpecSchedulerFair == SpecScheduler /\ WF_vars(Work)

\* the job or handler upserts reviews of the reviewer
UpsertsOf(job, reviewer) ==
  IF reviewer = "fantano"
  THEN job.name \in {"scrape-latest", "process-video", "scrape/fantano", "scrape/all"}
  ELSE job.name \in {"scrape-scaruffi", "scrape/scaruffi", "scrape/all"}
       \/ (job.queue = "scaruffiQueue" /\ job.name = "search-artist")

\* C24: no two ingestion jobs that upsert reviews of the same reviewer are in
\* progress at the same time.
C24_OneJobPerReviewer ==
  \A i, j \in DOMAIN args.active, reviewer \in {"fantano", "scaruffi"} :
    i # j => ~(UpsertsOf(args.active[i], reviewer) /\ UpsertsOf(args.active[j], reviewer))

C30_EveryJobProcessed ==
  \A queue \in QueueNames, name \in JobNames :
    (\E k \in DOMAIN args.waiting[queue] : args.waiting[queue][k] = name)
      ~> (<<queue, name>> \in args.processed)

====
